---- MODULE Spec2Model ----
(***************************************************************************)
(* A model of the orchestration core of langgraph_deepseek_multiagent:     *)
(* the execution planner and task decomposer (src/planning/task_planner),  *)
(* intent recognition (src/llm), the coordinator's turn handling           *)
(* (src/agents/coordinator.py), the turn pipeline                          *)
(* (src/framework/multi_agent_framework.py), the memory manager            *)
(* (src/memory/memory_manager.py) and the MCP manager                      *)
(* (src/tools/mcp_client.py).                                              *)
(*                                                                         *)
(* Each component has its own specification over the shared variables:     *)
(*   PlanSpec       TaskPlanner.create_execution_plan, one action per      *)
(*                  pass of its while loop                                 *)
(*   DecomposeSpec  TaskPlanner.decompose_task, one action per LLM call    *)
(*                  and the code that follows it                           *)
(*   IntentSpec     recognize_user_intent through either intent recognizer *)
(*   TurnSpec       CoordinatorAgent.register_agent and one call of        *)
(*                  CoordinatorAgent.process, one action per await         *)
(*   ToolsSpec      CoordinatorAgent._decide_and_call_tools, one action    *)
(*                  per tool call                                          *)
(*   FrameworkSpec  MultiAgentFramework.process_message, up to two calls   *)
(*                  on one instance, one action per pipeline stage         *)
(*   BatchSpec      EnhancedIntentRecognizer.batch_recognize_intents, one  *)
(*                  action per completed task                              *)
(*   MemorySpec     MemoryManager.store and retrieve over a primary and a  *)
(*                  fallback store, one action per call                    *)
(*   McpSpec        MCPManager.add_client, call_tool and disconnect_all    *)
(*                  and their callers, one action per call                 *)
(* Python exceptions are modelled as values: an operator that can raise    *)
(* returns a record with a field "raised".                                 *)
(***************************************************************************)
EXTENDS Integers, Sequences, FiniteSets, TLC

\* ------------------------------------------------------------------------
\* Bounds of the model
\* ------------------------------------------------------------------------

\* Largest number of subtasks of a task handed to the planner.
MaxSubtasks == 3

\* Largest total number of dependency entries over the subtasks of a task
\* handed to the planner.
MaxDependencies == 3

\* Largest number of subtasks in a breakdown the LLM returns to the decomposer.
MaxBreakdown == 2

\* ------------------------------------------------------------------------
\* Generic helpers
\* ------------------------------------------------------------------------

Range(s) == {s[i] : i \in 1..Len(s)}

\* Index of the first occurrence of x in s, 0 when absent (list.index).
IndexOf(s, x) == IF x \in Range(s) THEN CHOOSE i \in 1..Len(s) : s[i] = x /\ \A j \in 1..(i-1) : s[j] # x ELSE 0

IsInjective(s) == \A i, j \in 1..Len(s) : s[i] = s[j] => i = j

VARIABLES
    \* --- planner (create_execution_plan) ---
    task_id,            \* task.id
    subtasks,           \* task.subtasks: sequence of [id, dependencies]
    plan_pc,            \* "start" | "loop" | "done"
    remaining_tasks,    \* keys of the dict remaining_tasks, in dict order
    completed_tasks,    \* the set completed_tasks
    execution_order,    \* the list execution_order
    plan_passes,        \* number of iterations of the while loop so far
    plan_result,        \* the returned list (<<>> until the call returns)
    \* --- decomposer (decompose_task) ---
    client_cfg,         \* which LLM clients the planner's factory and the global factory hold
    dec_pc,             \* position inside decompose_task
    dec_value,          \* the structured result / response in flight
    dec_task,           \* the Task returned (NoTask until the call returns)
    dec_raised,         \* TRUE when decompose_task raised to its caller
    dec_failures,       \* the kinds of LLM-call failure seen during the call
    \* --- intent recognition (recognize_user_intent) ---
    int_pc,             \* position inside recognize_intent
    int_value,          \* the structured result / response in flight
    int_result,         \* the Intent returned (NoIntent until the call returns)
    int_raised,         \* TRUE when recognize_intent raised to its caller
    int_failures,       \* what went wrong during the call: "transport", "parse", "label"
    \* --- one turn of the coordinator (CoordinatorAgent.process) ---
    agents,             \* self.agents: the registry, a dict in insertion order
    register_calls,     \* history: every register_agent call so far, in call order
    turn_pc,            \* position inside process and its branch handlers
    turn_intent,        \* intent.type.value of the turn
    rag_results,        \* the text search_and_format returned (a token sequence)
    search_result,      \* what search_manager.search returned ("not_called" if not invoked)
    current_task,       \* state.current_task, with its subtasks and their status
    execution_plan,     \* the plan _execute_complex_task iterates over
    plan_index,         \* position of the loop of _execute_complex_task in the plan
    missing_info,       \* what _check_missing_information returned
    execution_log,      \* history: the handler run for each executed task or subtask, and the
                        \* metadata of the response it returned
    subtask_results,    \* results collected by _execute_complex_task
    turn_response,      \* the AgentResponse process returns
    \* --- tool augmentation (CoordinatorAgent._decide_and_call_tools) ---
    tools_pc,           \* position inside _decide_and_call_tools
    tools_to_call,      \* the list _determine_required_tools returned
    tool_index,         \* position of the loop in tools_to_call
    tool_results,       \* the tool_results dict (a function on tool names)
    tool_log,           \* history: what each tool call did, in call order
    \* --- the turn pipeline (MultiAgentFramework.process_message) ---
    graph_available,    \* TRUE when self.graph is set (the checkpointed-graph engine)
    conversation_id,    \* self.conversation_id, a field of the framework instance
    memory_store,       \* the memory backend: the message list stored per conversation id
    turn_count,         \* history: the number of process_message calls begun so far
    call_pc,            \* per caller: the position of its process_message call
    call_args,          \* per caller: the arguments of its call, and the number of the call
    state_messages,     \* per caller: state.messages of its call
    call_result,        \* per caller: the dict its call returned
    call_trace,         \* per caller, history: what the stages of its call did
    \* --- batch intent recognition (batch_recognize_intents) ---
    batch_pc,           \* position of the batch call
    batch_messages,     \* the messages argument
    batch_tasks,        \* the recognize_intent tasks, in the order of the messages
    batch_order,        \* history: the indices of the tasks in the order they completed
    batch_intents,      \* the list returned
    \* --- memory manager (MemoryManager.store / retrieve) ---
    primary_memory,     \* the primary store: the value held per key
    fallback_memory,    \* the fallback store: the value held per key
    store_calls,        \* history: the number of store calls made
    last_stored,        \* history, per key: the outcome of the latest store call on the key
    memory_call,        \* history: the latest call on the manager and what it returned
    \* --- MCP manager (MCPManager) ---
    clients,            \* self.clients: the client held under each name
    default_client,     \* self.default_client
    created_clients,    \* history: the number of MCPClient objects created
    connected,          \* the clients whose connected flag is set
    mcp_call            \* history: the latest call on the manager and the client it reached

planVars == <<task_id, subtasks, plan_pc, remaining_tasks, completed_tasks, execution_order, plan_passes, plan_result>>

decVars == <<client_cfg, dec_pc, dec_value, dec_task, dec_raised, dec_failures>>

intVars == <<int_pc, int_value, int_result, int_raised, int_failures>>

turnVars == <<agents, register_calls, turn_pc, turn_intent, rag_results, search_result, current_task,
             execution_plan, plan_index, missing_info, execution_log, subtask_results, turn_response>>

toolVars == <<tools_pc, tools_to_call, tool_index, tool_results, tool_log>>

fwVars == <<graph_available, conversation_id, memory_store, turn_count, call_pc, call_args,
           state_messages, call_result, call_trace>>

batchVars == <<batch_pc, batch_messages, batch_tasks, batch_order, batch_intents>>

memVars == <<primary_memory, fallback_memory, store_calls, last_stored, memory_call>>

mcpVars == <<clients, default_client, created_clients, connected, mcp_call>>

vars == <<planVars, decVars, intVars, turnVars, toolVars, fwVars, batchVars, memVars, mcpVars>>

\* What the actions of one component leave unchanged: the other components.
planOthers == <<decVars, intVars, turnVars, toolVars, fwVars, batchVars, memVars, mcpVars>>
decOthers == <<planVars, intVars, turnVars, toolVars, fwVars, batchVars, memVars, mcpVars>>
intOthers == <<planVars, decVars, turnVars, toolVars, fwVars, batchVars, memVars, mcpVars>>
turnOthers == <<planVars, decVars, intVars, toolVars, fwVars, batchVars, memVars, mcpVars>>
toolOthers == <<planVars, decVars, intVars, turnVars, fwVars, batchVars, memVars, mcpVars>>
fwOthers == <<planVars, decVars, intVars, turnVars, toolVars, batchVars, memVars, mcpVars>>
batchOthers == <<planVars, decVars, intVars, turnVars, toolVars, fwVars, memVars, mcpVars>>
memOthers == <<planVars, decVars, intVars, turnVars, toolVars, fwVars, batchVars, mcpVars>>
mcpOthers == <<planVars, decVars, intVars, turnVars, toolVars, fwVars, batchVars, memVars>>

\* ------------------------------------------------------------------------
\* Values shared by the components
\* ------------------------------------------------------------------------

\* The text of the user's request (task_description).
Req == "req"

\* "No Task": the value of dec_task while no Task has been returned.
NoTask == [id |-> 0, name |-> "", description |-> "", complexity |-> "", subtasks |-> <<>>]

\* "No value": the value of dec_value while no response is in flight.
NoValue == [kind |-> "none", has_keys |-> FALSE, name |-> "", description |-> "", complexity |-> "", subtasks |-> <<>>]

\* "No Intent": the value of int_result while no Intent has been returned.
NoIntent == [type |-> "", confidence |-> 0]

\* "No value" of int_value.
NoIntentValue == [kind |-> "none", keys |-> {}, type |-> "", confidence |-> 0]

\* The components at rest (their state in the specifications of the others).
PlanIdle ==
    /\ task_id = 0
    /\ subtasks = <<>>
    /\ plan_pc = "idle"
    /\ remaining_tasks = <<>>
    /\ completed_tasks = {}
    /\ execution_order = <<>>
    /\ plan_passes = 0
    /\ plan_result = <<>>

DecIdle ==
    /\ client_cfg = "langchain"
    /\ dec_pc = "idle"
    /\ dec_value = NoValue
    /\ dec_task = NoTask
    /\ dec_raised = FALSE
    /\ dec_failures = {}

IntIdle ==
    /\ int_pc = "idle"
    /\ int_value = NoIntentValue
    /\ int_result = NoIntent
    /\ int_raised = FALSE
    /\ int_failures = {}

NoResponse == [content |-> "", confidence |-> 0, next_action |-> "", tool_calls |-> <<>>, metadata |-> "", agent |-> 0]

\* The callers of process_message: at most two calls are in progress at a time.
Callers == {"a", "b"}

\* None
NoId == <<>>

NoResult == [keys |-> {}, response |-> "", confidence |-> 0, tool_calls |-> <<>>, next_action |-> "",
             conversation_id |-> NoId, message_id |-> <<>>]

NoArgs == [turn |-> 0, user_input |-> "", conversation_id |-> NoId]

NoMetadata == [confidence |-> 0, tool_calls |-> <<>>, next_action |-> ""]

NoMessage == [id |-> <<>>, type |-> "", content |-> "", metadata |-> NoMetadata]

NoTrace == [own_id |-> NoId, stages |-> <<>>, loaded_from |-> NoId, loaded |-> <<>>, stored_under |-> NoId,
            stored |-> <<>>, coordinator_input |-> NoMessage, coordinate_raised |-> FALSE,
            load_failed |-> FALSE,
            engine_raised |-> FALSE]

FrameworkIdle ==
    /\ graph_available = FALSE
    /\ conversation_id = NoId
    /\ memory_store = <<>>
    /\ turn_count = 0
    /\ call_pc = [c \in Callers |-> "idle"]
    /\ call_args = [c \in Callers |-> NoArgs]
    /\ state_messages = [c \in Callers |-> <<>>]
    /\ call_result = [c \in Callers |-> NoResult]
    /\ call_trace = [c \in Callers |-> NoTrace]

MemoryIdle ==
    /\ primary_memory = <<>>
    /\ fallback_memory = <<>>
    /\ store_calls = 0
    /\ last_stored = <<>>
    /\ memory_call = <<>>

McpIdle ==
    /\ clients = <<>>
    /\ default_client = 0
    /\ created_clients = 0
    /\ connected = {}
    /\ mcp_call = <<>>

BatchIdle ==
    /\ batch_pc = "idle"
    /\ batch_messages = <<>>
    /\ batch_tasks = <<>>
    /\ batch_order = <<>>
    /\ batch_intents = <<>>

ToolsIdle ==
    /\ tools_pc = "idle"
    /\ tools_to_call = <<>>
    /\ tool_index = 0
    /\ tool_results = <<>>
    /\ tool_log = <<>>

TurnIdle ==
    /\ agents = <<>>
    /\ register_calls = <<>>
    /\ turn_pc = "idle"
    /\ turn_intent = ""
    /\ rag_results = <<>>
    /\ search_result = "not_called"
    /\ current_task = NoTask
    /\ execution_plan = <<>>
    /\ plan_index = 0
    /\ missing_info = <<>>
    /\ execution_log = <<>>
    /\ subtask_results = <<>>
    /\ turn_response = NoResponse

\* ========================================================================
\* Execution planner: TaskPlanner.create_execution_plan
\* ========================================================================

\* The id of the parent task; also used as a dependency id that names no
\* sibling (a cross-tree reference).
ParentId == MaxSubtasks + 1

\* uuid4 ids are distinct and unrelated to list order. Two id assignments are
\* drawn: ids increasing along the subtask list, and ids decreasing along it.
IdAt(order, i, n) == IF order = "asc" THEN i ELSE n + 1 - i

\* dict lookup remaining_tasks[task_id] (ids are unique)
SubtaskById(sts, id) == sts[CHOOSE i \in 1..Len(sts) : sts[i].id = id]

\* all(dep_id in completed_tasks or dep_id not in remaining_tasks ...)
DependenciesMet(subtask, completed, remaining) ==
    \A dep_id \in subtask.dependencies : dep_id \in completed \/ dep_id \notin Range(remaining)

\* Mutant: every remaining subtask counts as ready (dependencies ignored).
ReadyTasksIgnoringDeps(sts, remaining, completed) == remaining

\* Mutant: the pass iterates over task.subtasks instead of remaining_tasks, so
\* a subtask already scheduled is found ready again.
ReadyTasksOverAllSubtasks(sts, remaining, completed) ==
    SelectSeq([i \in 1..Len(sts) |-> sts[i].id],
              LAMBDA id : DependenciesMet(SubtaskById(sts, id), completed, remaining))

\* ready_tasks of one pass, in the iteration order of the dict
ReadyTasks(sts, remaining, completed) ==
    SelectSeq(remaining, LAMBDA id : DependenciesMet(SubtaskById(sts, id), completed, remaining))

\* Mutant: a stalled pass schedules nothing.
BreakCycleNothing(remaining) == <<>>

\* ready_tasks = [list(remaining_tasks.keys())[0]]
BreakCycle(remaining) == <<Head(remaining)>>

\* The ids one pass schedules: the ready ones, or the forced one on a stall.
PassTasks(sts, remaining, completed) ==
    LET ready == ReadyTasks(sts, remaining, completed)
    IN  IF ready = <<>> THEN BreakCycle(remaining) ELSE ready

\* del remaining_tasks[task_id] for every id of the pass
RemainingAfterPass(remaining, pass) ==
    SelectSeq(remaining, LAMBDA id : id \notin Range(pass))

\* The whole loop as a function, for callers of the planner.
RECURSIVE PlanLoop(_, _, _, _)
PlanLoop(sts, remaining, completed, order) ==
    IF remaining = <<>> THEN order
    ELSE LET pass == PassTasks(sts, remaining, completed)
         IN  PlanLoop(sts, RemainingAfterPass(remaining, pass), completed \cup Range(pass), order \o pass)

CreateExecutionPlan(tid, sts) ==
    IF sts = <<>> THEN <<tid>>
    ELSE PlanLoop(sts, [i \in 1..Len(sts) |-> sts[i].id], {}, <<>>)

\* The subsets of E with at most k elements.
RECURSIVE SubsetsUpTo(_, _)
SubsetsUpTo(E, k) ==
    IF k = 0 THEN {{}}
    ELSE LET S == SubsetsUpTo(E, k - 1) IN S \cup {s \cup {e} : s \in S, e \in E}

\* Tasks handed to the planner: up to MaxSubtasks subtasks with unique ids and
\* up to MaxDependencies dependency entries in all, each entry the id of a
\* sibling (the subtask itself included) or an id that names no sibling.
PlannerSubtasks ==
    UNION { { [i \in 1..n |-> [id |-> IdAt(order, i, n),
                               dependencies |-> {e[2] : e \in {d \in D : d[1] = i}}]] :
                D \in SubsetsUpTo((1..n) \X ((1..n) \cup {ParentId}), MaxDependencies) } :
            n \in 0..MaxSubtasks, order \in {"asc", "desc"} }

PlanInit ==
    /\ task_id = ParentId
    /\ subtasks \in PlannerSubtasks
    /\ plan_pc = "start"
    /\ remaining_tasks = <<>>
    /\ completed_tasks = {}
    /\ execution_order = <<>>
    /\ plan_passes = 0
    /\ plan_result = <<>>
    /\ DecIdle
    /\ IntIdle
    /\ TurnIdle
    /\ ToolsIdle
    /\ FrameworkIdle
    /\ BatchIdle
    /\ MemoryIdle
    /\ McpIdle

\* Lines 203-209: the early return for a task without subtasks, else the
\* initialisation of the loop state.
PlanEnter ==
    /\ plan_pc = "start"
    /\ IF subtasks = <<>>
       THEN /\ plan_pc' = "done"
            /\ plan_result' = <<task_id>>
            /\ remaining_tasks' = <<>>
       ELSE /\ plan_pc' = "loop"
            /\ plan_result' = <<>>
            /\ remaining_tasks' = [i \in 1..Len(subtasks) |-> subtasks[i].id]
    /\ completed_tasks' = {}
    /\ execution_order' = <<>>
    /\ UNCHANGED <<task_id, subtasks, plan_passes>>
    /\ UNCHANGED planOthers

\* Lines 211-230: one iteration of `while remaining_tasks`.
PlanPass ==
    /\ plan_pc = "loop"
    /\ remaining_tasks # <<>>
    /\ plan_passes <= Len(subtasks)
    /\ LET pass == PassTasks(subtasks, remaining_tasks, completed_tasks)
       IN  /\ execution_order' = execution_order \o pass
           /\ completed_tasks' = completed_tasks \cup Range(pass)
           /\ remaining_tasks' = RemainingAfterPass(remaining_tasks, pass)
    /\ plan_passes' = plan_passes + 1
    /\ UNCHANGED <<task_id, subtasks, plan_pc, plan_result>>
    /\ UNCHANGED planOthers

\* Line 232: the loop condition is false, return execution_order.
PlanReturn ==
    /\ plan_pc = "loop"
    /\ remaining_tasks = <<>>
    /\ plan_pc' = "done"
    /\ plan_result' = execution_order
    /\ UNCHANGED <<task_id, subtasks, remaining_tasks, completed_tasks, execution_order, plan_passes>>
    /\ UNCHANGED planOthers

PlanNext == PlanEnter \/ PlanPass \/ PlanReturn

PlanSpec == PlanInit /\ [][PlanNext]_vars

\* ------------------------------------------------------------------------
\* Properties of the planner
\* ------------------------------------------------------------------------

SubtaskIds == {subtasks[i].id : i \in 1..Len(subtasks)}

\* The sibling dependency graph: s2 -> s1 when s2.dependencies contains s1.id.
DependsOn(a, b) == b \in SubtaskById(subtasks, a).dependencies

RECURSIVE ReachableIn(_, _, _)
ReachableIn(a, b, k) ==
    \/ DependsOn(a, b)
    \/ k > 1 /\ \E c \in SubtaskIds : DependsOn(a, c) /\ ReachableIn(c, b, k - 1)

HasCycle == \E a \in SubtaskIds : ReachableIn(a, a, Len(subtasks))

\* C1: the plan is a permutation of the subtask ids (each exactly once and no
\* other id), and is the one-element list of the task's own id when the task
\* has no subtasks.
C1_PlanIsPermutation ==
    plan_pc = "done" =>
        IF subtasks = <<>>
        THEN plan_result = <<task_id>>
        ELSE /\ Len(plan_result) = Len(subtasks)
             /\ Range(plan_result) = SubtaskIds
             /\ IsInjective(plan_result)

C1_Witness ==
    /\ plan_pc = "done"
    /\ Len(subtasks) >= 2
    /\ plan_passes >= 2
    /\ \E i \in 1..Len(subtasks) : subtasks[i].dependencies # {}

\* C2: without a dependency cycle, a subtask is placed after every sibling it
\* depends on.
C2_DependenciesFirst ==
    (plan_pc = "done" /\ ~HasCycle) =>
        \A s1, s2 \in SubtaskIds :
            DependsOn(s2, s1) => IndexOf(plan_result, s1) < IndexOf(plan_result, s2)

\* a dependency that runs against the list order has been honoured
C2_Witness ==
    /\ plan_pc = "done"
    /\ ~HasCycle
    /\ \E i, j \in 1..Len(subtasks) :
          /\ i < j
          /\ subtasks[j].id \in subtasks[i].dependencies
          /\ IndexOf(plan_result, subtasks[j].id) < IndexOf(plan_result, subtasks[i].id)

\* C3: the loop terminates, also under a dependency cycle: every pass removes
\* at least one subtask from the remaining set (so the passes made plus the
\* subtasks remaining never exceed the number of subtasks), the call can
\* always take its next step until it has returned, and the result schedules
\* every subtask.
C3_PlannerTerminates ==
    /\ plan_passes + Len(remaining_tasks) <= Len(subtasks)
    /\ plan_pc = "done" \/ ENABLED PlanNext
    /\ plan_pc = "done" /\ subtasks # <<>> => Range(plan_result) = SubtaskIds

\* a returned plan for a task with a two-node cycle, a self-dependency or a
\* longer cycle
C3_Witness ==
    /\ plan_pc = "done"
    /\ Len(plan_result) = Len(subtasks)
    /\ \E a, b, c \in SubtaskIds :
          /\ a # b /\ b # c /\ a # c
          /\ DependsOn(a, b) /\ DependsOn(b, c) /\ DependsOn(c, a)
          /\ ~DependsOn(a, a) /\ ~DependsOn(b, a)

\* C25: a pass that finds no ready subtask schedules exactly one subtask,
\* the remaining one with the lowest id.
C25_StalledPassForcesLowestId ==
    [][(plan_pc = "loop" /\ remaining_tasks # <<>>
          /\ ReadyTasks(subtasks, remaining_tasks, completed_tasks) = <<>>) =>
            LET lowest == CHOOSE id \in Range(remaining_tasks) : \A other \in Range(remaining_tasks) : id <= other
            IN  execution_order' = Append(execution_order, lowest)]_vars

\* ========================================================================
\* Task decomposer: TaskPlanner.decompose_task
\* ========================================================================

\* Which clients are in use. "langchain": the planner's factory and the global
\* llm_factory both hold the LangChain client (structured-output mode).
\* "original": both hold the original client (traditional mode). "mixed": the
\* planner was given a factory of type ORIGINAL while the global llm_factory,
\* which get_structured_response and get_llm_response use, holds the LangChain
\* client (traditional mode over the LangChain client).
ClientConfigs == {"langchain", "original", "mixed"}

\* LLMClientFactory.supports_structured_output of the planner's factory
SupportsStructuredOutput(cfg) == cfg = "langchain"

\* whether the global llm_factory's client is the LangChain client
GlobalIsLangChain(cfg) == cfg \in {"langchain", "mixed"}

\* TaskComplexity
TaskComplexityValues == {"simple", "medium", "complex"}

\* Complexity labels an LLM puts in a StructuredTaskAnalysis (any string).
ComplexityLabels == TaskComplexityValues \cup {"hard"}

\* Texts the classification call returns, and str.strip().lower() on them.
ClassifierTexts == {"simple", " Medium\n", "COMPLEX", "hard", ""}

StripLower(text) ==
    CASE text = " Medium\n" -> "medium"
      [] text = "COMPLEX" -> "complex"
      [] OTHER -> text

\* Names the LLM gives to the task and to subtasks, and names it lists as
\* dependencies ("X" names no subtask). NonStringName stands for a name that is
\* not a string, which Task(...) rejects.
GenName == "gen_name"
GenDesc == "gen_desc"
NonStringName == "<non-string>"
SubtaskNames == {"A", "B"}
DependencyNames == {"A", "B", "X"}

BreakdownEntries == [name : SubtaskNames, dependencies : SUBSET DependencyNames]

\* The "subtasks" lists an LLM returns: up to MaxBreakdown well-formed entries,
\* or a list holding an entry whose name is not a string.
Breakdowns ==
    UNION {[1..n -> BreakdownEntries] : n \in 0..MaxBreakdown}
        \cup {<<[name |-> NonStringName, dependencies |-> {}]>>}

\* Values a structured call yields: a StructuredTaskAnalysis instance
\* ("model"), a JSON object ("dict", with or without the keys name,
\* description, subtasks), or any other JSON value ("other").
ModelValue(name, description, complexity, sts) ==
    [kind |-> "model", has_keys |-> TRUE, name |-> name, description |-> description, complexity |-> complexity, subtasks |-> sts]

DictValue(has_keys, sts) ==
    [kind |-> "dict", has_keys |-> has_keys, name |-> IF has_keys THEN GenName ELSE "", description |-> IF has_keys THEN GenDesc ELSE "", complexity |-> "", subtasks |-> IF has_keys THEN sts ELSE <<>>]

OtherJsonValue == [NoValue EXCEPT !.kind = "other"]

\* {"content": response, "error": "failed_to_parse"} and {"content": content}
ContentOnlyDict == DictValue(FALSE, <<>>)

JsonValues == {DictValue(TRUE, b) : b \in Breakdowns} \cup {ContentOnlyDict, OtherJsonValue}

\* What the output parser of the chain returns when the chain succeeds.
ParserValues(cfg) ==
    IF SupportsStructuredOutput(cfg)
    THEN {ModelValue(GenName, GenDesc, c, b) : c \in ComplexityLabels, b \in Breakdowns}
    ELSE JsonValues

\* analyze_task_structured's default analysis
DefaultAnalysis(task_description) == ModelValue(task_description, task_description, "medium", <<>>)

\* Results of code that may raise.
Returned(task) == [raised |-> FALSE, exc |-> "", task |-> task]
Raised(exc) == [raised |-> TRUE, exc |-> exc, task |-> NoTask]

\* ---- building the Task ----

\* ids: the main task takes the first uuid, the subtasks the following ones.
MainTaskId == 1
FallbackTaskId == MaxBreakdown + 2

\* for subtask_data in subtasks: Task(id=uuid4(), name=..., complexity=SIMPLE,
\* dependencies=subtask_data.get("dependencies", []))
BuildSubtasks(breakdown) ==
    [i \in 1..Len(breakdown) |->
        [id |-> MainTaskId + i, name |-> breakdown[i].name, complexity |-> "simple",
         dependencies |-> breakdown[i].dependencies, status |-> "pending"]]

\* subtask_map[subtask.name] = subtask.id: a later subtask of the same name
\* overwrites the entry of an earlier one.
SubtaskMapHas(sts, name) == \E i \in 1..Len(sts) : sts[i].name = name

SubtaskMapGet(sts, name) ==
    sts[CHOOSE i \in 1..Len(sts) : sts[i].name = name /\ \A j \in (i+1)..Len(sts) : sts[j].name # name].id

\* subtask.dependencies = [subtask_map.get(dep, dep) for dep in
\* subtask.dependencies if dep in subtask_map]   (order and repetitions of the
\* list are not modelled: dependencies are sets)
RewriteDependencies(sts) ==
    [i \in 1..Len(sts) |->
        [sts[i] EXCEPT !.dependencies =
            {SubtaskMapGet(sts, dep_name) : dep_name \in {d \in sts[i].dependencies : SubtaskMapHas(sts, d)}}]]

MakeTask(name, description, complexity, breakdown) ==
    [id |-> MainTaskId, name |-> name, description |-> description, complexity |-> complexity,
     subtasks |-> RewriteDependencies(BuildSubtasks(breakdown))]

HasNonStringName(breakdown) == \E i \in 1..Len(breakdown) : breakdown[i].name = NonStringName

\* _decompose_task_structured after the structured result has arrived
\* (lines 103-133): attribute access on a non-model raises AttributeError,
\* TaskComplexity(label) raises ValueError for a label outside the enum, and
\* Task(name=<non-string>) raises a ValidationError.
StructuredBuild(sr) ==
    IF sr.kind # "model" THEN Raised("AttributeError")
    ELSE IF sr.complexity \notin TaskComplexityValues THEN Raised("ValueError")
    ELSE IF HasNonStringName(sr.subtasks) THEN Raised("ValidationError")
    ELSE Returned(MakeTask(sr.name, sr.description, sr.complexity, sr.subtasks))

\* response.get(key, default) on a JSON object
DictGet(response, present, default) == IF response.has_keys THEN present ELSE default

\* _decompose_task_traditional after the classification call (lines 168-199)
TraditionalBuild(response, complexity, task_description) ==
    IF HasNonStringName(response.subtasks) THEN Raised("ValidationError")
    ELSE Returned(MakeTask(DictGet(response, response.name, task_description),
                           DictGet(response, response.description, task_description),
                           complexity, response.subtasks))

\* analyze_task_complexity: "transport" stands for the call raising
AnalyzeTaskComplexity(outcome) ==
    IF outcome = "transport" THEN "medium"
    ELSE IF StripLower(outcome) \in TaskComplexityValues THEN StripLower(outcome)
    ELSE "medium"

\* decompose_task's fallback Task (lines 74-79)
FallbackTask(task_description) ==
    [id |-> FallbackTaskId, name |-> task_description, description |-> task_description, complexity |-> "simple", subtasks |-> <<>>]

\* Mutant: decompose_task catches only ValueError.
DecomposeTaskCatchesValueErrorOnly(exc) == exc = "ValueError"

\* `except Exception` of decompose_task (line 71)
DecomposeTaskCatches(exc) == TRUE

\* `except Exception` of analyze_task_structured (line 305)
AnalyzeTaskStructuredCatches(exc) == TRUE

\* decompose_task returns or raises: `result` is what the mode's function did.
DecomposeFinish(result, failures) ==
    /\ dec_pc' = "done"
    /\ dec_value' = NoValue
    /\ dec_failures' = failures
    /\ IF ~result.raised
       THEN dec_task' = result.task /\ dec_raised' = FALSE
       ELSE IF DecomposeTaskCatches(result.exc)
            THEN dec_task' = FallbackTask(Req) /\ dec_raised' = FALSE
            ELSE dec_task' = NoTask /\ dec_raised' = TRUE

DecInit ==
    /\ client_cfg \in ClientConfigs
    /\ dec_pc = "start"
    /\ dec_value = NoValue
    /\ dec_task = NoTask
    /\ dec_raised = FALSE
    /\ dec_failures = {}
    /\ PlanIdle
    /\ IntIdle
    /\ TurnIdle
    /\ ToolsIdle
    /\ FrameworkIdle
    /\ BatchIdle
    /\ MemoryIdle
    /\ McpIdle

\* decompose_task lines 65-70 up to the first LLM call: the LangChain client's
\* generate_structured_response starts with its chain, the original client's
\* with its single completion call.
DecomposeEnter ==
    /\ dec_pc = "start"
    /\ dec_pc' = IF GlobalIsLangChain(client_cfg) THEN "chain" ELSE "orig_call"
    /\ UNCHANGED <<client_cfg, dec_value, dec_task, dec_raised, dec_failures>>
    /\ UNCHANGED decOthers

\* LangChainDeepSeekClient.generate_structured_response, chain.ainvoke
\* (lines 181-217): the parsed value, or a transport or parse failure that
\* sends the call to its fallback.
ChainInvoke ==
    /\ dec_pc = "chain"
    /\ \/ \E v \in ParserValues(client_cfg) :
            /\ dec_value' = v
            /\ dec_pc' = IF SupportsStructuredOutput(client_cfg) THEN "s_build" ELSE "t_main"
            /\ UNCHANGED dec_failures
       \/ \E failure \in {"transport", "parse"} :
            /\ dec_failures' = dec_failures \cup {failure}
            /\ dec_pc' = "fallback"
            /\ UNCHANGED dec_value
    /\ UNCHANGED <<client_cfg, dec_task, dec_raised>>
    /\ UNCHANGED decOthers

\* The fallback of generate_structured_response (lines 219-227):
\* generate_response, then json.loads. When generate_response raises, the bare
\* except reads the unbound local `response` and UnboundLocalError leaves the
\* function: analyze_task_structured turns it into its default analysis, the
\* traditional mode lets it reach decompose_task.
FallbackGenerate ==
    /\ dec_pc = "fallback"
    /\ \/ /\ IF SupportsStructuredOutput(client_cfg) /\ AnalyzeTaskStructuredCatches("UnboundLocalError")
             THEN /\ dec_value' = DefaultAnalysis(Req)
                  /\ dec_pc' = "s_build"
                  /\ dec_failures' = dec_failures \cup {"transport"}
                  /\ UNCHANGED <<dec_task, dec_raised>>
             ELSE DecomposeFinish(Raised("UnboundLocalError"), dec_failures \cup {"transport"})
       \/ \E v \in JsonValues :
            /\ dec_value' = v
            /\ dec_pc' = IF SupportsStructuredOutput(client_cfg) THEN "s_build" ELSE "t_main"
            /\ UNCHANGED <<dec_task, dec_raised, dec_failures>>
    /\ UNCHANGED client_cfg
    /\ UNCHANGED decOthers

\* DeepSeekLLM.generate_structured_response (lines 57-90): a transport failure
\* is re-raised and reaches decompose_task; content that is not JSON comes back
\* as {"content": content}.
OriginalGenerateStructured ==
    /\ dec_pc = "orig_call"
    /\ \/ DecomposeFinish(Raised("TransportError"), dec_failures \cup {"transport"})
       \/ /\ dec_value' = ContentOnlyDict
          /\ dec_failures' = dec_failures \cup {"parse"}
          /\ dec_pc' = "t_main"
          /\ UNCHANGED <<dec_task, dec_raised>>
       \/ \E v \in JsonValues \ {ContentOnlyDict} :
            /\ dec_value' = v
            /\ dec_pc' = "t_main"
            /\ UNCHANGED <<dec_task, dec_raised, dec_failures>>
    /\ UNCHANGED client_cfg
    /\ UNCHANGED decOthers

\* _decompose_task_structured lines 103-133 and the return through
\* decompose_task.
DecomposeStructuredBuild ==
    /\ dec_pc = "s_build"
    /\ DecomposeFinish(StructuredBuild(dec_value), dec_failures)
    /\ UNCHANGED client_cfg
    /\ UNCHANGED decOthers

\* _decompose_task_traditional lines 168-171: response.get on a value that is
\* no JSON object raises AttributeError before the classification call.
DecomposeTraditionalMain ==
    /\ dec_pc = "t_main"
    /\ IF dec_value.kind # "dict"
       THEN DecomposeFinish(Raised("AttributeError"), dec_failures)
       ELSE /\ dec_pc' = "t_classify"
            /\ UNCHANGED <<dec_value, dec_task, dec_raised, dec_failures>>
    /\ UNCHANGED client_cfg
    /\ UNCHANGED decOthers

\* Line 172, the classification call, and lines 175-199 after it.
DecomposeClassifyAndBuild ==
    /\ dec_pc = "t_classify"
    /\ \E outcome \in {"transport"} \cup ClassifierTexts :
          DecomposeFinish(TraditionalBuild(dec_value, AnalyzeTaskComplexity(outcome), Req),
                          IF outcome = "transport" THEN dec_failures \cup {"classification"} ELSE dec_failures)
    /\ UNCHANGED client_cfg
    /\ UNCHANGED decOthers

DecomposeNext ==
    \/ DecomposeEnter
    \/ ChainInvoke
    \/ FallbackGenerate
    \/ OriginalGenerateStructured
    \/ DecomposeStructuredBuild
    \/ DecomposeTraditionalMain
    \/ DecomposeClassifyAndBuild

DecomposeSpec == DecInit /\ [][DecomposeNext]_vars

\* ------------------------------------------------------------------------
\* Properties of the decomposer
\* ------------------------------------------------------------------------

IsTask(t) ==
    /\ t.id # NoTask.id
    /\ t.complexity \in TaskComplexityValues
    /\ \A i \in 1..Len(t.subtasks) : t.subtasks[i].name # NonStringName

\* C4: decompose_task always returns a Task and never raises to its caller,
\* whatever the LLM calls do, in the structured-output mode and in the
\* traditional mode; until it has returned it can always take its next step.
C4_DecomposeNeverRaises ==
    /\ ~dec_raised
    /\ dec_pc = "done" => IsTask(dec_task)
    /\ dec_pc = "done" \/ ENABLED DecomposeNext

\* a Task returned after a transport failure, after unparseable output, and
\* after an out-of-enum complexity label
C4_Witness ==
    /\ dec_pc = "done"
    /\ IsTask(dec_task)
    /\ dec_failures = {"parse", "transport"}
    /\ client_cfg = "mixed"

\* C5 (as claimed): whenever an LLM call made during decompose_task has failed,
\* the Task returned has no subtasks, complexity simple, and name and
\* description equal to the request text.
C5_FailureYieldsSimpleSingleNode ==
    (dec_pc = "done" /\ dec_failures # {}) =>
        /\ dec_task.subtasks = <<>>
        /\ dec_task.complexity = "simple"
        /\ dec_task.name = Req
        /\ dec_task.description = Req

\* C26: a complexity label outside simple, medium, complex gives a Task of
\* complexity medium that keeps the subtasks of the breakdown: in the
\* structured-output mode, where the label comes with the breakdown, and in
\* the traditional mode, where the classification call's text is the label.
C26_BadComplexityDefaultsToMedium ==
    [][/\ (dec_pc = "s_build" /\ dec_value.kind = "model"
              /\ dec_value.complexity \notin TaskComplexityValues
              /\ ~HasNonStringName(dec_value.subtasks)) =>
                /\ dec_task'.complexity = "medium"
                /\ Len(dec_task'.subtasks) = Len(dec_value.subtasks)
       /\ (dec_pc = "t_classify" /\ ~HasNonStringName(dec_value.subtasks)) =>
                /\ dec_task'.complexity \in TaskComplexityValues
                /\ Len(dec_task'.subtasks) = Len(dec_value.subtasks)]_vars

\* C27: in the Task decompose_task returns, every dependency of a subtask is
\* the id of another subtask of the same Task: no raw name, no id from
\* outside the siblings, not the subtask's own id.
C27_DependenciesAreOtherSiblings ==
    dec_pc = "done" =>
        \A i \in 1..Len(dec_task.subtasks) :
            \A dep \in dec_task.subtasks[i].dependencies :
                /\ \E j \in 1..Len(dec_task.subtasks) : dec_task.subtasks[j].id = dep
                /\ dep # dec_task.subtasks[i].id

\* ========================================================================
\* Intent recognition: recognize_user_intent
\* ========================================================================

\* IntentType
IntentTypes == {"casual_chat", "complex_task", "information_query", "task_execution"}

\* Labels a classifier returns: the four types and two that are no member of
\* the enum (IntentType(label) compares the exact string).
IntentLabels == IntentTypes \cup {"greeting", "Complex_Task"}

\* Confidence in hundredths. 0.5: the default of a failed recognition.
DefaultIntentConfidence == 50
\* 0.0: response.get("confidence", 0.0) of the original recognizer.
MissingIntentConfidence == 0
\* Intent.confidence: Field(ge=0.0, le=1.0)
MaxIntentConfidence == 100

\* Confidences a classifier returns: in range, and one out of range.
ClassifierConfidences == {MissingIntentConfidence, MaxIntentConfidence - 5, MaxIntentConfidence + DefaultIntentConfidence}

ConfidenceValid(c) == MissingIntentConfidence <= c /\ c <= MaxIntentConfidence

\* A StructuredIntent instance: the parser has validated its confidence.
IntentModelValues ==
    {[kind |-> "model", keys |-> {"type", "confidence"}, type |-> l, confidence |-> c] :
        l \in IntentLabels, c \in {c \in ClassifierConfidences : ConfidenceValid(c)}}

\* JSON values: an object with or without the keys type and confidence
\* ({"content": ...} has neither), or a value that is no object.
IntentJsonValues ==
    {[kind |-> "dict", keys |-> ks, type |-> IF "type" \in ks THEN l ELSE "", confidence |-> IF "confidence" \in ks THEN c ELSE MissingIntentConfidence] :
        ks \in SUBSET {"type", "confidence"}, l \in IntentLabels, c \in ClassifierConfidences}
    \cup {[NoIntentValue EXCEPT !.kind = "other"]}

IntentContentOnlyDict == [kind |-> "dict", keys |-> {}, type |-> "", confidence |-> MissingIntentConfidence]

IntentReturned(intent) == [raised |-> FALSE, exc |-> "", intent |-> intent]
IntentRaised(exc) == [raised |-> TRUE, exc |-> exc, intent |-> NoIntent]

\* Mutant: the raw label is taken as the type without the enum lookup.
MakeIntentUnchecked(label, confidence) ==
    IF ~ConfidenceValid(confidence) THEN IntentRaised("ValidationError")
    ELSE IntentReturned([type |-> label, confidence |-> confidence])

\* Intent(type=IntentType(label), confidence=...): ValueError for a label
\* outside the enum, ValidationError for a confidence outside [0, 1].
MakeIntent(label, confidence) ==
    IF label \notin IntentTypes THEN IntentRaised("ValueError")
    ELSE IF ~ConfidenceValid(confidence) THEN IntentRaised("ValidationError")
    ELSE IntentReturned([type |-> label, confidence |-> confidence])

\* recognize_intent_structured lines 260-265
StructuredIntentBuild(sr) ==
    IF sr.kind # "model" THEN IntentRaised("AttributeError")
    ELSE MakeIntent(sr.type, sr.confidence)

\* IntentRecognizer.recognize_intent lines 131-136
OriginalIntentBuild(response) ==
    IF response.kind # "dict" THEN IntentRaised("AttributeError")
    ELSE MakeIntent(IF "type" \in response.keys THEN response.type ELSE "casual_chat",
                    IF "confidence" \in response.keys THEN response.confidence ELSE MissingIntentConfidence)

\* the default Intent of both recognizers' except branch
DefaultIntent == [type |-> "casual_chat", confidence |-> DefaultIntentConfidence]

\* `except Exception` of recognize_intent / recognize_intent_structured
RecognizeIntentCatches(exc) == TRUE

\* recognize_intent returns: `result` is what its try block did.
IntentFinish(result, failures) ==
    /\ int_pc' = "done"
    /\ int_value' = NoIntentValue
    /\ int_failures' = failures
    /\ IF ~result.raised
       THEN int_result' = result.intent /\ int_raised' = FALSE
       ELSE IF RecognizeIntentCatches(result.exc)
            THEN int_result' = DefaultIntent /\ int_raised' = FALSE
            ELSE int_result' = NoIntent /\ int_raised' = TRUE

\* the label the recognizer reads from the value, when it reads one
LabelFailure(v) ==
    IF v.kind \in {"model", "dict"} /\ "type" \in v.keys /\ v.type \notin IntentTypes THEN {"label"} ELSE {}

IntentInit ==
    /\ client_cfg \in ClientConfigs
    /\ dec_pc = "idle"
    /\ dec_value = NoValue
    /\ dec_task = NoTask
    /\ dec_raised = FALSE
    /\ dec_failures = {}
    /\ int_pc = "start"
    /\ int_value = NoIntentValue
    /\ int_result = NoIntent
    /\ int_raised = FALSE
    /\ int_failures = {}
    /\ PlanIdle
    /\ TurnIdle
    /\ ToolsIdle
    /\ FrameworkIdle
    /\ BatchIdle
    /\ MemoryIdle
    /\ McpIdle

\* recognize_user_intent -> llm_factory.recognize_intent -> the recognizer of
\* the global factory's client type, up to its first LLM call.
IntentEnter ==
    /\ int_pc = "start"
    /\ int_pc' = IF GlobalIsLangChain(client_cfg) THEN "chain" ELSE "orig_call"
    /\ UNCHANGED <<int_value, int_result, int_raised, int_failures>>
    /\ UNCHANGED intOthers

\* generate_structured_response(pydantic_model=StructuredIntent): chain.ainvoke
IntentChainInvoke ==
    /\ int_pc = "chain"
    /\ \/ \E v \in IntentModelValues :
            /\ int_value' = v
            /\ int_pc' = "s_build"
            /\ UNCHANGED int_failures
       \/ \E failure \in {"transport", "parse"} :
            /\ int_failures' = int_failures \cup {failure}
            /\ int_pc' = "fallback"
            /\ UNCHANGED int_value
    /\ UNCHANGED <<int_result, int_raised>>
    /\ UNCHANGED intOthers

\* the fallback of generate_structured_response: UnboundLocalError when
\* generate_response raises, else the JSON value or {"content", "error"}
IntentFallbackGenerate ==
    /\ int_pc = "fallback"
    /\ \/ IntentFinish(IntentRaised("UnboundLocalError"), int_failures \cup {"transport"})
       \/ \E v \in IntentJsonValues :
            /\ int_value' = v
            /\ int_pc' = "s_build"
            /\ UNCHANGED <<int_result, int_raised, int_failures>>
    /\ UNCHANGED intOthers

\* recognize_intent_structured lines 260-275 after the structured result
IntentStructuredBuild ==
    /\ int_pc = "s_build"
    /\ IntentFinish(StructuredIntentBuild(int_value), int_failures \cup LabelFailure(int_value))
    /\ UNCHANGED intOthers

\* DeepSeekLLM.generate_structured_response called by IntentRecognizer
IntentOriginalCall ==
    /\ int_pc = "orig_call"
    /\ \/ IntentFinish(IntentRaised("TransportError"), int_failures \cup {"transport"})
       \/ /\ int_value' = IntentContentOnlyDict
          /\ int_failures' = int_failures \cup {"parse"}
          /\ int_pc' = "o_build"
          /\ UNCHANGED <<int_result, int_raised>>
       \/ \E v \in IntentJsonValues :
            /\ int_value' = v
            /\ int_pc' = "o_build"
            /\ UNCHANGED <<int_result, int_raised, int_failures>>
    /\ UNCHANGED intOthers

\* IntentRecognizer.recognize_intent lines 131-146 after the response
IntentOriginalBuild ==
    /\ int_pc = "o_build"
    /\ IntentFinish(OriginalIntentBuild(int_value), int_failures \cup LabelFailure(int_value))
    /\ UNCHANGED intOthers

IntentNext ==
    \/ IntentEnter
    \/ IntentChainInvoke
    \/ IntentFallbackGenerate
    \/ IntentStructuredBuild
    \/ IntentOriginalCall
    \/ IntentOriginalBuild

IntentSpec == IntentInit /\ [][IntentNext]_vars

\* ------------------------------------------------------------------------
\* Properties of intent recognition
\* ------------------------------------------------------------------------

\* C6: intent recognition always returns an Intent of one of the four types and
\* never raises or blocks; when the classifier output was unparseable, carried
\* an unrecognized label, or the call failed, the type is casual_chat.
C6_IntentDefaultsToCasualChat ==
    /\ ~int_raised
    /\ int_pc = "done" \/ ENABLED IntentNext
    /\ int_pc = "done" =>
          /\ int_result.type \in IntentTypes
          /\ ConfidenceValid(int_result.confidence)
          /\ int_failures # {} => int_result.type = "casual_chat"

\* an unrecognized label has been turned into the casual_chat default
C6_Witness ==
    /\ int_pc = "done"
    /\ int_failures = {"label"}
    /\ int_result = DefaultIntent

\* ========================================================================
\* One turn of the coordinator: CoordinatorAgent.register_agent and
\* CoordinatorAgent.process with its branch handlers
\* ========================================================================

\* --- texts ---------------------------------------------------------------
\* A text is a sequence of tokens; `phrase in text` is the substring test of
\* Python at the granularity of tokens.
Contains(text, phrase) == \E i \in 1..Len(text) : text[i] = phrase

\* The phrase _handle_information_query looks for in the lookup text.
NoInfoPhrase == "no_relevant_information_found"

\* search_and_format: the text returned for an empty result list (the phrase
\* and a full stop), and the text returned when the search raised.
NoInfoText == <<NoInfoPhrase, ".">>
LookupErrorText == <<"error_during_search", ".">>

\* Documents of the knowledge base: their text and the source of their
\* metadata. One document quotes the phrase in its own text.
PlainDocument == [document |-> <<"visa_rules">>, source |-> <<"handbook">>]
QuotingDocument == [document |-> <<"reply", NoInfoPhrase, "when_unsure">>, source |-> <<"faq">>]
Documents == {PlainDocument, QuotingDocument}

\* What self.rag.search returns: a list of results (ChromaRAG.search returns
\* [] when its own query fails).
RagSearchResults == {<<>>} \cup {<<d>> : d \in Documents}

\* formatted_text of search_and_format for a non-empty result list
RECURSIVE FormatResults(_, _)
FormatResults(results, i) ==
    IF i > Len(results) THEN <<>>
    ELSE <<"source:">> \o results[i].source \o <<"content:">> \o results[i].document
         \o FormatResults(results, i + 1)

\* RAGManager.search_and_format; outcome "raise" is an exception inside the
\* try block.
SearchAndFormat(outcome, results) ==
    IF outcome = "raise" THEN LookupErrorText
    ELSE IF results = <<>> THEN NoInfoText
    ELSE <<"found", "results:">> \o FormatResults(results, 1)

\* str.strip(): leading and trailing blanks removed
RECURSIVE StripLeft(_)
StripLeft(text) == IF text # <<>> /\ Head(text) = " " THEN StripLeft(Tail(text)) ELSE text

RECURSIVE StripRight(_)
StripRight(text) ==
    IF text # <<>> /\ text[Len(text)] = " " THEN StripRight(SubSeq(text, 1, Len(text) - 1)) ELSE text

Strip(text) == StripRight(StripLeft(text))

\* The answer that means "nothing is missing", and the answers the check for
\* missing information may get from the LLM.
NothingMissing == <<"none">>
MissingInfoAnswers == {NothingMissing, <<" ", "none", " ">>, <<>>, <<" ">>, <<"destination?">>}

\* _check_missing_information: "" for the answer "none" (stripped) and when
\* the call raised, else the answer as it came.
CheckMissingInformation(outcome, answer) ==
    IF outcome = "raise" THEN <<>>
    ELSE IF Strip(answer) = NothingMissing THEN <<>> ELSE answer

\* Mutant: the check for missing information is ignored.
MissingInfoNeverBlocks(missing) == FALSE

\* `if missing_info:` a non-empty string is true
MissingInfoBlocks(missing) == missing # <<>>

\* --- the registry --------------------------------------------------------
\* Specialists are told apart by the number of the register_agent call that
\* registered them; register_calls[a] holds the name and the keywords of a.
\* Largest number of register_agent calls before the turn.
MaxRegistrations == 3
AgentNames == {"travel", "research"}
Topics == {"travel", "other"}
AgentKeywords == {{"travel"}, {"other"}}

\* Mutant: a name registered again moves to the end of the registry.
RegistryPutMovesLast(registry, name, agent) ==
    Append(SelectSeq(registry, LAMBDA e : e.name # name), [name |-> name, agent |-> agent])

\* self.agents[agent.name] = agent on a dict: a new name is appended, an
\* existing name keeps its position and gets the new agent.
RegistryPut(registry, name, agent) ==
    IF \E i \in 1..Len(registry) : registry[i].name = name
    THEN [i \in 1..Len(registry) |->
            IF registry[i].name = name THEN [name |-> name, agent |-> agent] ELSE registry[i]]
    ELSE Append(registry, [name |-> name, agent |-> agent])

\* agent.can_handle(task): a keyword of the agent occurs in the task's text
\* (the task's name stands for the text)
CanHandle(calls, agent, task) == task.name \in calls[agent].keywords

\* Mutant: the last accepting agent of the registry is selected.
SelectLastAgentForTask(registry, calls, task) ==
    LET accepting == SelectSeq(registry, LAMBDA e : CanHandle(calls, e.agent, task))
    IN  IF accepting = <<>> THEN 0 ELSE accepting[Len(accepting)].agent

\* _select_agent_for_task: the first agent of self.agents.values() that
\* accepts, None (0) when none does.
SelectAgentForTask(registry, calls, task) ==
    LET accepting == SelectSeq(registry, LAMBDA e : CanHandle(calls, e.agent, task))
    IN  IF accepting = <<>> THEN 0 ELSE Head(accepting).agent

\* --- tasks and responses -------------------------------------------------
\* What decompose_task hands to the coordinator: a Task without subtasks whose
\* text is about one topic, or a Task with up to MaxBreakdown subtasks, each
\* about one topic; a subtask about "travel" may depend on the subtask named
\* "other" (which, when it comes later in the list, makes the plan differ from
\* the list order).
TurnBreakdownEntries ==
    {[name |-> "travel", dependencies |-> {}], [name |-> "travel", dependencies |-> {"other"}],
     [name |-> "other", dependencies |-> {}]}

TurnBreakdowns == UNION {[1..n -> TurnBreakdownEntries] : n \in 1..MaxBreakdown}

TurnTasks ==
    {MakeTask(name, Req, "simple", <<>>) : name \in Topics}
        \cup {MakeTask(Req, Req, "medium", breakdown) : breakdown \in TurnBreakdowns}

\* Confidence in hundredths.
EmptyMessagesResponse ==
    [content |-> "no_message", confidence |-> 0, next_action |-> "", tool_calls |-> <<>>, metadata |-> "", agent |-> 0]

\* process, except Exception: the error text with confidence 0.0
ErrorResponse ==
    [content |-> "error", confidence |-> 0, next_action |-> "", tool_calls |-> <<>>, metadata |-> "", agent |-> 0]

CasualChatResponse ==
    [content |-> "chat", confidence |-> 90, next_action |-> "", tool_calls |-> <<>>, metadata |-> "", agent |-> 0]

DefaultResponse ==
    [content |-> "more_details_please", confidence |-> 50, next_action |-> "", tool_calls |-> <<>>, metadata |-> "", agent |-> 0]

\* web_results of _handle_information_query: search_result["results"] when
\* the key is there, else None; `if web_results:` is false for None and [].
WebResultsTruthy(result) == result = "results"

\* tool_calls of _handle_information_query (lines 160-166)
QueryToolCalls(result) == IF WebResultsTruthy(result) THEN <<"web_search">> ELSE <<>>

QueryResponse(result) ==
    [content |-> "answer", confidence |-> 80, next_action |-> "", tool_calls |-> QueryToolCalls(result),
     metadata |-> "", agent |-> 0]

RequestInfoResponse ==
    [content |-> "missing_info", confidence |-> 70, next_action |-> "request_info", tool_calls |-> <<>>,
     metadata |-> "", agent |-> 0]

\* _execute_simple_task without a specialist: the LLM's text, confidence 0.7
DirectResponse ==
    [content |-> "direct", confidence |-> 70, next_action |-> "", tool_calls |-> <<>>, metadata |-> "", agent |-> 0]

\* What a specialist's process returns (TravelAgent.process): its plan with
\* its own tool call and metadata, or its apology when it failed inside.
SpecialistResponse(agent, outcome) ==
    IF outcome = "ok"
    THEN [content |-> "specialist", confidence |-> 85, next_action |-> "", tool_calls |-> <<"web_search">>,
          metadata |-> "agent_info", agent |-> agent]
    ELSE [content |-> "specialist_apology", confidence |-> 30, next_action |-> "", tool_calls |-> <<>>,
          metadata |-> "", agent |-> agent]

SummaryResponse ==
    [content |-> "summary", confidence |-> 80, next_action |-> "", tool_calls |-> <<>>,
     metadata |-> "subtask_results", agent |-> 0]

\* --- the turn ------------------------------------------------------------
TurnInit ==
    /\ agents = <<>>
    /\ register_calls = <<>>
    /\ turn_pc = "setup"
    /\ turn_intent = ""
    /\ rag_results = <<>>
    /\ search_result = "not_called"
    /\ current_task = NoTask
    /\ execution_plan = <<>>
    /\ plan_index = 0
    /\ missing_info = <<>>
    /\ execution_log = <<>>
    /\ subtask_results = <<>>
    /\ turn_response = NoResponse
    /\ PlanIdle
    /\ DecIdle
    /\ IntIdle
    /\ ToolsIdle
    /\ FrameworkIdle
    /\ BatchIdle
    /\ MemoryIdle
    /\ McpIdle

\* Mutant: the casual branch is taken for no type; casual_chat is handled as a
\* query.
BranchWithoutCasual(intent_type) ==
    CASE intent_type \in {"casual_chat", "information_query"} -> "query"
      [] intent_type = "complex_task" -> "task"
      [] OTHER -> "default"

\* process, lines 84-91: the branch taken for an intent type.
Branch(intent_type) ==
    CASE intent_type = "casual_chat" -> "casual"
      [] intent_type = "information_query" -> "query"
      [] intent_type = "complex_task" -> "task"
      [] OTHER -> "default"

\* process returns `r`.
TurnReturn(r) ==
    /\ turn_pc' = "done"
    /\ turn_response' = r

\* register_agent, called before the turn.
RegisterAgent ==
    /\ turn_pc = "setup"
    /\ Len(register_calls) < MaxRegistrations
    /\ \E name \in AgentNames, keywords \in AgentKeywords :
          /\ register_calls' = Append(register_calls, [name |-> name, keywords |-> keywords])
          /\ agents' = RegistryPut(agents, name, Len(register_calls) + 1)
    /\ UNCHANGED <<turn_pc, turn_intent, rag_results, search_result, current_task, execution_plan,
                   plan_index, missing_info, execution_log, subtask_results, turn_response>>
    /\ UNCHANGED turnOthers

\* process, lines 50-82: the empty message list, else intent recognition and
\* context extraction (neither raises: both catch and return a default).
ProcessEnter ==
    /\ turn_pc = "setup"
    /\ \/ /\ TurnReturn(EmptyMessagesResponse)
          /\ UNCHANGED turn_intent
       \/ /\ \E type \in IntentTypes : turn_intent' = type
          /\ turn_pc' = "dispatch"
          /\ UNCHANGED turn_response
    /\ UNCHANGED <<agents, register_calls, rag_results, search_result, current_task, execution_plan,
                   plan_index, missing_info, execution_log, subtask_results>>
    /\ UNCHANGED turnOthers

\* _handle_casual_chat; a failure of the generation call reaches the except
\* of process.
HandleCasualChat ==
    /\ turn_pc = "dispatch"
    /\ Branch(turn_intent) = "casual"
    /\ \E outcome \in {"ok", "raise"} :
          TurnReturn(IF outcome = "ok" THEN CasualChatResponse ELSE ErrorResponse)
    /\ UNCHANGED <<agents, register_calls, turn_intent, rag_results, search_result, current_task,
                   execution_plan, plan_index, missing_info, execution_log, subtask_results>>
    /\ UNCHANGED turnOthers

\* _handle_default (intent task_execution): a fixed text, no call.
HandleDefault ==
    /\ turn_pc = "dispatch"
    /\ Branch(turn_intent) = "default"
    /\ TurnReturn(DefaultResponse)
    /\ UNCHANGED <<agents, register_calls, turn_intent, rag_results, search_result, current_task,
                   execution_plan, plan_index, missing_info, execution_log, subtask_results>>
    /\ UNCHANGED turnOthers

\* _handle_information_query, line 132: the knowledge lookup. Without a
\* knowledge base self.rag_manager is None and the call raises AttributeError,
\* which the except of process turns into the error response.
QueryLookup ==
    /\ turn_pc = "dispatch"
    /\ Branch(turn_intent) = "query"
    /\ \/ /\ TurnReturn(ErrorResponse)
          /\ UNCHANGED rag_results
       \/ /\ \E outcome \in {"ok", "raise"}, results \in RagSearchResults :
                rag_results' = SearchAndFormat(outcome, results)
          /\ turn_pc' = IF Contains(rag_results', NoInfoPhrase) THEN "query_search" ELSE "query_generate"
          /\ UNCHANGED turn_response
    /\ UNCHANGED <<agents, register_calls, turn_intent, search_result, current_task, execution_plan,
                   plan_index, missing_info, execution_log, subtask_results>>
    /\ UNCHANGED turnOthers

\* Lines 136-139: the web search. SearchManager.search returns the tool's
\* dict with "results" (possibly an empty list) or {"error": ...}; it catches
\* every exception itself.
QueryWebSearch ==
    /\ turn_pc = "query_search"
    /\ \E result \in {"results", "empty", "error"} : search_result' = result
    /\ turn_pc' = "query_generate"
    /\ UNCHANGED <<agents, register_calls, turn_intent, rag_results, current_task, execution_plan,
                   plan_index, missing_info, execution_log, subtask_results, turn_response>>
    /\ UNCHANGED turnOthers

\* Lines 141-172: the generation call and the response.
QueryGenerate ==
    /\ turn_pc = "query_generate"
    /\ \E outcome \in {"ok", "raise"} :
          TurnReturn(IF outcome = "ok" THEN QueryResponse(search_result) ELSE ErrorResponse)
    /\ UNCHANGED <<agents, register_calls, turn_intent, rag_results, search_result, current_task,
                   execution_plan, plan_index, missing_info, execution_log, subtask_results>>
    /\ UNCHANGED turnOthers

\* _handle_complex_task, lines 182-186: decompose_task (always a Task) and
\* create_execution_plan.
TaskDecompose ==
    /\ turn_pc = "dispatch"
    /\ Branch(turn_intent) = "task"
    /\ \E task \in TurnTasks :
          /\ current_task' = task
          /\ execution_plan' = CreateExecutionPlan(task.id, task.subtasks)
    /\ turn_pc' = "check_missing"
    /\ UNCHANGED <<agents, register_calls, turn_intent, rag_results, search_result, plan_index,
                   missing_info, execution_log, subtask_results, turn_response>>
    /\ UNCHANGED turnOthers

\* Lines 189-203: the check for missing information, then either the request
\* for it or the entry into _execute_complex_task (which plans again, line
\* 266) or _execute_simple_task.
TaskCheckMissing ==
    /\ turn_pc = "check_missing"
    /\ \E outcome \in {"ok", "raise"}, answer \in MissingInfoAnswers :
          missing_info' = CheckMissingInformation(outcome, answer)
    /\ IF MissingInfoBlocks(missing_info')
       THEN /\ TurnReturn(RequestInfoResponse)
            /\ UNCHANGED <<execution_plan, plan_index>>
       ELSE /\ turn_pc' = IF current_task.subtasks # <<>> THEN "execute_complex" ELSE "execute_simple"
            /\ execution_plan' = CreateExecutionPlan(current_task.id, current_task.subtasks)
            /\ plan_index' = 1
            /\ UNCHANGED turn_response
    /\ UNCHANGED <<agents, register_calls, turn_intent, rag_results, search_result, current_task,
                   execution_log, subtask_results>>
    /\ UNCHANGED turnOthers

\* What _execute_simple_task does with `task`: the selected specialist's
\* process, or the direct generation when none accepts. Either may raise.
Handlers(task) ==
    LET agent == SelectAgentForTask(agents, register_calls, task)
    IN  IF agent # 0
        THEN {[handler |-> agent, raised |-> FALSE, response |-> SpecialistResponse(agent, "ok")],
              [handler |-> agent, raised |-> FALSE, response |-> SpecialistResponse(agent, "failed_inside")],
              [handler |-> agent, raised |-> TRUE, response |-> ErrorResponse]}
        ELSE {[handler |-> 0, raised |-> FALSE, response |-> DirectResponse],
              [handler |-> 0, raised |-> TRUE, response |-> ErrorResponse]}

\* _execute_simple_task for a task without subtasks (line 203).
ExecuteSimpleTask ==
    /\ turn_pc = "execute_simple"
    /\ \E h \in Handlers(current_task) :
          /\ execution_log' = Append(execution_log, [task |-> current_task.id, handler |-> h.handler,
                                                   metadata |-> h.response.metadata])
          /\ TurnReturn(h.response)
    /\ UNCHANGED <<agents, register_calls, turn_intent, rag_results, search_result, current_task,
                   execution_plan, plan_index, missing_info, subtask_results>>
    /\ UNCHANGED turnOthers

\* Mutant: the newest result is put in front of the collected ones.
CollectResultInFront(results, subtask, response) ==
    <<[subtask |-> subtask.id, result |-> response.content]>> \o results

\* results.append({"subtask": ..., "result": result.content}), lines 283-286;
\* the subtask is recorded here by its id.
CollectResult(results, subtask, response) ==
    Append(results, [subtask |-> subtask.id, result |-> response.content])

\* One iteration of the loop of _execute_complex_task (lines 269-291).
ExecuteSubtask ==
    /\ turn_pc = "execute_complex"
    /\ plan_index <= Len(execution_plan)
    /\ LET subtask_id == execution_plan[plan_index]
           found == {i \in 1..Len(current_task.subtasks) : current_task.subtasks[i].id = subtask_id}
       IN  IF found = {}
           THEN /\ plan_index' = plan_index + 1
                /\ UNCHANGED <<current_task, execution_log, subtask_results, turn_pc, turn_response>>
           ELSE LET i == CHOOSE j \in found : \A k \in found : j <= k
                    subtask == current_task.subtasks[i]
                IN  \E h \in Handlers(subtask) :
                       /\ execution_log' = Append(execution_log, [task |-> subtask.id, handler |-> h.handler,
                                                                metadata |-> h.response.metadata])
                       /\ IF h.raised
                          THEN /\ TurnReturn(ErrorResponse)
                               /\ UNCHANGED <<current_task, subtask_results, plan_index>>
                          ELSE /\ subtask_results' = CollectResult(subtask_results, subtask, h.response)
                               /\ current_task' = [current_task EXCEPT !.subtasks[i].status = "completed"]
                               /\ plan_index' = plan_index + 1
                               /\ UNCHANGED <<turn_pc, turn_response>>
    /\ UNCHANGED <<agents, register_calls, turn_intent, rag_results, search_result, execution_plan,
                   missing_info>>
    /\ UNCHANGED turnOthers

\* Lines 293-300: the summary (its own failure is caught and replaced by a
\* fixed text) and the response.
SummarizeTaskResults ==
    /\ turn_pc = "execute_complex"
    /\ plan_index > Len(execution_plan)
    /\ \E content \in {"summary", "completed_text"} :
          TurnReturn([SummaryResponse EXCEPT !.content = content])
    /\ UNCHANGED <<agents, register_calls, turn_intent, rag_results, search_result, current_task,
                   execution_plan, plan_index, missing_info, execution_log, subtask_results>>
    /\ UNCHANGED turnOthers

TurnNext ==
    \/ RegisterAgent
    \/ ProcessEnter
    \/ HandleCasualChat
    \/ HandleDefault
    \/ QueryLookup
    \/ QueryWebSearch
    \/ QueryGenerate
    \/ TaskDecompose
    \/ TaskCheckMissing
    \/ ExecuteSimpleTask
    \/ ExecuteSubtask
    \/ SummarizeTaskResults

TurnSpec == TurnInit /\ [][TurnNext]_vars

\* ------------------------------------------------------------------------
\* Properties of the turn
\* ------------------------------------------------------------------------

\* The task or subtask of the turn with the given id.
TurnTaskById(id) ==
    IF id = current_task.id THEN current_task
    ELSE current_task.subtasks[CHOOSE i \in 1..Len(current_task.subtasks) : current_task.subtasks[i].id = id]

\* The specialists the registry holds.
HeldAgents == {agents[i].agent : i \in 1..Len(agents)}

Min(S) == CHOOSE x \in S : \A y \in S : x <= y
Max(S) == CHOOSE x \in S : \A y \in S : x >= y

\* The register_agent calls made under `name`.
CallsUnder(name) == {a \in 1..Len(register_calls) : register_calls[a].name = name}

RegisteredNames == {register_calls[a].name : a \in 1..Len(register_calls)}

\* C7: in the task branch, a non-empty result of the check for missing
\* information ends the turn with next_action "request_info" and confidence
\* 0.7; no specialist and no direct generation has run for the task or a
\* subtask, no result has been collected and every subtask is still pending.
C7_MissingInfoRequestsInfo ==
    missing_info # <<>> =>
        /\ turn_pc = "done"
        /\ turn_response.next_action = "request_info"
        /\ turn_response.confidence = 70
        /\ execution_log = <<>>
        /\ subtask_results = <<>>
        /\ \A i \in 1..Len(current_task.subtasks) : current_task.subtasks[i].status = "pending"

\* information is missing for a task with subtasks of which the first would
\* have been accepted by a registered specialist
C7_Witness ==
    /\ turn_pc = "done"
    /\ missing_info = <<"destination?">>
    /\ Len(current_task.subtasks) >= 2
    /\ SelectAgentForTask(agents, register_calls, current_task.subtasks[1]) # 0

\* C8 as stated: every executed task or subtask was handled by the
\* earliest-registered specialist (the lowest registration number) among the
\* registered specialists that accept it, and by the direct generation if and
\* only if no registered specialist accepts it.
C8_EarliestRegisteredHandles ==
    \A k \in 1..Len(execution_log) :
        LET task == TurnTaskById(execution_log[k].task)
            accepting == {a \in HeldAgents : CanHandle(register_calls, a, task)}
        IN  execution_log[k].handler = IF accepting = {} THEN 0 ELSE Min(accepting)

\* C8, amended: every executed task or subtask was handled by the specialist
\* held under the earliest-registered name among the names whose current
\* specialist (the one registered last under the name) accepts it, also when
\* a specialist under a later name accepts it too; the direct generation is
\* used if and only if no specialist of the registry accepts.
C8_FirstAcceptingNameHandles ==
    \A k \in 1..Len(execution_log) :
        LET task == TurnTaskById(execution_log[k].task)
            accepting == {n \in RegisteredNames : CanHandle(register_calls, Max(CallsUnder(n)), task)}
        IN  execution_log[k].handler =
                IF accepting = {} THEN 0
                ELSE Max(CallsUnder(CHOOSE n \in accepting :
                                        \A m \in accepting : Min(CallsUnder(n)) <= Min(CallsUnder(m))))

\* a subtask was handled by a specialist registered again under the first
\* name, although a specialist registered before it accepts the subtask too
C8_Witness ==
    /\ turn_pc = "done"
    /\ \E k \in 1..Len(execution_log) :
          LET task == TurnTaskById(execution_log[k].task)
              h == execution_log[k].handler
          IN  /\ h # 0
              /\ \E a \in HeldAgents : a < h /\ CanHandle(register_calls, a, task)

\* C9 as stated, for the turns whose generation call succeeded: when the
\* knowledge lookup returned the no-relevant-information text, the response's
\* tool_calls holds a web_search entry.
C9_SentinelYieldsWebSearchEntry ==
    (/\ turn_pc = "done"
     /\ turn_intent = "information_query"
     /\ rag_results = NoInfoText
     /\ turn_response.content = "answer")
        => Contains(turn_response.tool_calls, "web_search")

\* C10 as stated: in the query branch the web search is invoked only when the
\* lookup returned the no-relevant-information text; for any other lookup
\* text (documents found, or the lookup-error text) no web search is made and
\* the response's tool_calls is empty.
C10_WebSearchOnlyOnSentinel ==
    (turn_intent = "information_query" /\ rag_results # <<>> /\ rag_results # NoInfoText)
        => /\ search_result = "not_called"
           /\ turn_pc = "done" => turn_response.tool_calls = <<>>

\* C11 as stated: when every task or subtask of a complex-task turn was
\* handled by a specialist that accepted it and whose process set metadata
\* fields, the response returned for the turn carries those fields, for a
\* task without subtasks and for a task with subtasks.
C11_SpecialistMetadataReturned ==
    (/\ turn_pc = "done"
     /\ turn_response.content # ErrorResponse.content
     /\ execution_log # <<>>
     /\ \A k \in 1..Len(execution_log) :
           execution_log[k].handler # 0 /\ execution_log[k].metadata = "agent_info")
        => turn_response.metadata = "agent_info"

\* Did a handler raise in this turn (process then answers from its except).
HandlerRaised == turn_pc = "done" /\ turn_response.content = ErrorResponse.content

\* C23: in the task branch with subtasks, while no handler has raised, the
\* subtasks executed so far are the first ones of the execution plan, each
\* executed once and by one handler call, the i-th collected result is that
\* of the i-th subtask of the plan, and the summary is returned only when
\* every subtask of the plan has been executed; the plan names every subtask
\* of the task once.
C23_SubtasksRunInPlanOrder ==
    (turn_pc \in {"execute_complex", "done"} /\ current_task # NoTask /\ current_task.subtasks # <<>>
        /\ ~HandlerRaised /\ turn_response.next_action # "request_info") =>
        /\ Len(subtask_results) <= Len(execution_plan)
        /\ Len(execution_log) = Len(subtask_results)
        /\ \A i \in 1..Len(subtask_results) :
              /\ subtask_results[i].subtask = execution_plan[i]
              /\ execution_log[i].task = execution_plan[i]
        /\ Len(execution_plan) = Len(current_task.subtasks)
        /\ \A j \in 1..Len(current_task.subtasks) :
              Cardinality({i \in 1..Len(execution_plan) :
                              execution_plan[i] = current_task.subtasks[j].id}) = 1
        /\ turn_pc = "done" =>
              /\ turn_response.metadata = SummaryResponse.metadata
              /\ Len(subtask_results) = Len(execution_plan)

\* a task of two subtasks, the second of which the plan runs first, has been
\* summarised
C23_Witness ==
    /\ turn_pc = "done"
    /\ turn_response.metadata = SummaryResponse.metadata
    /\ Len(subtask_results) >= 2
    /\ subtask_results[1].subtask = current_task.subtasks[2].id

\* C24: a turn whose intent was classified as one of the four intent types
\* has passed through the casual, the query or the task branch when its
\* response is returned, and through no other.
C24_TurnPassesOneOfThreeBranches ==
    (turn_pc = "done" /\ turn_intent \in IntentTypes) =>
        /\ Branch(turn_intent) \in {"casual", "query", "task"}
        /\ turn_response # DefaultResponse

\* C28: after any sequence of register_agent calls the registry holds one
\* agent per registered name, the one registered last under the name, and its
\* names stand in the order of their first registration: an agent registered
\* again under a name takes the position of the agent it replaced.
C28_RegistryKeepsFirstRegistrationOrder ==
    /\ {agents[i].name : i \in 1..Len(agents)} = RegisteredNames
    /\ Len(agents) = Cardinality(RegisteredNames)
    /\ \A i \in 1..Len(agents) : agents[i].agent = Max(CallsUnder(agents[i].name))
    /\ \A i, j \in 1..Len(agents) :
          i < j => Min(CallsUnder(agents[i].name)) < Min(CallsUnder(agents[j].name))
    /\ \A task \in TurnTasks :
          LET accepting == {i \in 1..Len(agents) : CanHandle(register_calls, agents[i].agent, task)}
          IN  SelectAgentForTask(agents, register_calls, task) =
                  IF accepting = {} THEN 0 ELSE agents[Min(accepting)].agent

\* the first name was registered again after the second name: its new agent
\* stands first
C28_Witness ==
    /\ Len(agents) = 2
    /\ agents[1].agent > agents[2].agent
    /\ Len(register_calls) = MaxRegistrations

\* C13: during a turn classified as casual_chat the decomposer, the planner,
\* the knowledge lookup, the web search and the specialists are never invoked,
\* and when the generation call succeeded the response has a confidence above
\* 0 and an empty tool_calls list.
C13_CasualChatIsDirect ==
    turn_intent = "casual_chat" =>
        /\ current_task = NoTask
        /\ execution_plan = <<>>
        /\ rag_results = <<>>
        /\ search_result = "not_called"
        /\ execution_log = <<>>
        /\ (turn_pc = "done" /\ turn_response.content # ErrorResponse.content) =>
              /\ turn_response.confidence > 0
              /\ turn_response.tool_calls = <<>>

\* a casual_chat turn has returned its chat response while a specialist is
\* registered
C13_Witness ==
    /\ turn_pc = "done"
    /\ turn_intent = "casual_chat"
    /\ turn_response = CasualChatResponse
    /\ agents # <<>>

\* ========================================================================
\* Tool augmentation: CoordinatorAgent._decide_and_call_tools
\* ========================================================================

ToolNames == {"memory", "rag", "web_search", "mcp"}

\* _determine_required_tools: `mentioned` holds the tools whose keywords
\* occur in the input. The tools come in the fixed order of the four tests;
\* a complex_task adds memory and rag at the end when they are not there yet.
DetermineRequiredTools(mentioned, intent_type) ==
    LET by_keyword == SelectSeq(<<"memory", "rag", "web_search", "mcp">>, LAMBDA t : t \in mentioned)
        with_memory == IF intent_type = "complex_task" /\ "memory" \notin mentioned
                       THEN Append(by_keyword, "memory") ELSE by_keyword
    IN  IF intent_type = "complex_task" /\ "rag" \notin mentioned
        THEN Append(with_memory, "rag") ELSE with_memory

\* What a _call_*_tool method does: it returns a value, or an exception is
\* raised inside its try block.
\*  - memory: MemoryManager has no search_memories, the call raises
\*    AttributeError.
\*  - rag: without a knowledge base the method returns its own error dict;
\*    RAGManager has no search_documents, the call raises AttributeError.
\*  - web_search: SearchManager.search never raises; it returns results, an
\*    empty result list, or {"error": ...} when the search failed.
\*  - mcp: the calls of the MCP manager return or raise.
ToolOutcomes(tool) ==
    CASE tool = "memory" -> {[raised |-> TRUE, failed |-> TRUE, value |-> "none"]}
      [] tool = "rag" -> {[raised |-> TRUE, failed |-> TRUE, value |-> "none"],
                          [raised |-> FALSE, failed |-> TRUE, value |-> "rag_unavailable"]}
      [] tool = "web_search" -> {[raised |-> FALSE, failed |-> FALSE, value |-> "results"],
                                 [raised |-> FALSE, failed |-> FALSE, value |-> "empty"],
                                 [raised |-> FALSE, failed |-> TRUE, value |-> "search_error"]}
      [] tool = "mcp" -> {[raised |-> FALSE, failed |-> FALSE, value |-> "mcp_results"],
                          [raised |-> TRUE, failed |-> TRUE, value |-> "none"]}

ErrorEntry == [kind |-> "error", value |-> "exception_text"]

\* The dict a _call_*_tool method returns for an outcome: {"error": str(e)}
\* from its except, else the dict it builds around the value.
ToolEntry(tool, outcome) ==
    IF outcome.raised THEN ErrorEntry
    ELSE CASE tool = "rag" -> [kind |-> "error", value |-> outcome.value]
           [] tool = "web_search" -> [kind |-> "search_results", value |-> outcome.value]
           [] OTHER -> [kind |-> "results", value |-> outcome.value]

\* Mutant: the result dict is started afresh for every tool.
RecordOnlyThisTool(results, tool, entry) == [t \in {tool} |-> entry]

\* tool_results[tool_name] = result
RecordToolResult(results, tool, entry) ==
    [t \in DOMAIN results \cup {tool} |-> IF t = tool THEN entry ELSE results[t]]

ToolsInit ==
    /\ tools_pc = "start"
    /\ tools_to_call = <<>>
    /\ tool_index = 0
    /\ tool_results = <<>>
    /\ tool_log = <<>>
    /\ PlanIdle
    /\ DecIdle
    /\ IntIdle
    /\ TurnIdle
    /\ FrameworkIdle
    /\ BatchIdle
    /\ MemoryIdle
    /\ McpIdle

\* Lines 357-360.
DetermineTools ==
    /\ tools_pc = "start"
    /\ \E mentioned \in SUBSET ToolNames, intent_type \in IntentTypes :
          tools_to_call' = DetermineRequiredTools(mentioned, intent_type)
    /\ tool_index' = 1
    /\ tools_pc' = "loop"
    /\ UNCHANGED <<tool_results, tool_log>>
    /\ UNCHANGED toolOthers

\* One iteration of the loop (lines 362-388) for the tool `tool`.
CallTool(tool) ==
    /\ tools_pc = "loop"
    /\ tool_index <= Len(tools_to_call)
    /\ tools_to_call[tool_index] = tool
    /\ \E outcome \in ToolOutcomes(tool) :
          /\ tool_results' = RecordToolResult(tool_results, tool, ToolEntry(tool, outcome))
          /\ tool_log' = Append(tool_log, [tool |-> tool, outcome |-> outcome])
    /\ tool_index' = tool_index + 1
    /\ UNCHANGED <<tools_pc, tools_to_call>>
    /\ UNCHANGED toolOthers

CallMemoryTool == CallTool("memory")

CallRagTool == CallTool("rag")

CallWebSearchTool == CallTool("web_search")

CallMcpTools == CallTool("mcp")

\* Line 390.
ToolsReturn ==
    /\ tools_pc = "loop"
    /\ tool_index > Len(tools_to_call)
    /\ tools_pc' = "done"
    /\ UNCHANGED <<tools_to_call, tool_index, tool_results, tool_log>>
    /\ UNCHANGED toolOthers

ToolsNext ==
    \/ DetermineTools
    \/ CallMemoryTool
    \/ CallRagTool
    \/ CallWebSearchTool
    \/ CallMcpTools
    \/ ToolsReturn

ToolsSpec == ToolsInit /\ [][ToolsNext]_vars

\* ------------------------------------------------------------------------
\* Properties of the tool augmentation
\* ------------------------------------------------------------------------

\* Every required tool was called exactly once, in the order of the list, and
\* has exactly one entry.
EachToolCalledOnce ==
    /\ [k \in 1..Len(tool_log) |-> tool_log[k].tool] = tools_to_call
    /\ DOMAIN tool_results = Range(tools_to_call)

MaxTurns == 2

SuppliedIds == {<<"supplied", 1>>}

\* str(uuid.uuid4()) of call number t: never equal to another id
GeneratedId(t) == <<"generated", t>>

ConversationIds == SuppliedIds \cup {GeneratedId(t) : t \in 1..MaxTurns}

\* the user_input of a caller's calls
UserInput(c) == IF c = "a" THEN "text_of_a" ELSE "text_of_b"

\* Message(id=uuid4, type=USER_INPUT, content=user_input, ...) of call t
UserMessage(t, user_input) ==
    [id |-> <<t, "user_input">>, type |-> "user_input", content |-> user_input, metadata |-> NoMetadata]

\* _coordinator_node, lines 144-154: the message built from the coordinator's
\* AgentResponse; response.metadata is not copied.
ResponseMessage(t, response) ==
    [id |-> <<t, "agent_response">>, type |-> "agent_response", content |-> response.content,
     metadata |-> [confidence |-> response.confidence, tool_calls |-> response.tool_calls,
                   next_action |-> response.next_action]]

\* the text of an except branch: f"处理过程中出现错误: {str(e)}"
PipelineErrorText == "pipeline_error"

\* _coordinator_node, lines 162-169
ErrorMessage(t) ==
    [id |-> <<t, "system_message">>, type |-> "system_message", content |-> PipelineErrorText,
     metadata |-> NoMetadata]

\* What CoordinatorAgent.process returns to the coordinate stage: one of its
\* branches' responses, or the response of its own except branch.
CoordinatorResponses == {CasualChatResponse, ErrorResponse}

\* The responses of the branches that did what they were asked.
SuccessfulResponses ==
    {CasualChatResponse, DefaultResponse, QueryResponse("results"), RequestInfoResponse, DirectResponse,
     SpecialistResponse(1, "ok"), SummaryResponse}

\* memory_manager.retrieve_conversation: the stored list, or [] when the key
\* is absent or the backend's retrieve failed (MemoryManager.retrieve returns
\* None then).
RetrieveConversation(store, id, outcome) ==
    IF outcome = "retrieved" /\ id \in DOMAIN store THEN store[id] ELSE <<>>

\* memory_manager.store_conversation: MemoryManager.store swallows a failure
\* of the primary backend and the framework configures no fallback.
\* SqliteMemory.store raises whenever json.dumps rejects the value.
StoreOutcomes == {"stored", "raised"}

StoreConversation(store, id, messages, outcome) ==
    IF outcome = "stored"
    THEN [k \in DOMAIN store \cup {id} |-> IF k = id THEN messages ELSE store[k]]
    ELSE store

\* --- the two engines ------------------------------------------------------
\* workflow.add_edge calls of _init_langgraph
GraphEdges ==
    {<<"memory_check", "context_update">>, <<"context_update", "coordinator">>,
     <<"coordinator", "response_generation">>, <<"response_generation", "END">>}

\* workflow.set_entry_point
GraphEntryPoint == "memory_check"

\* Mutant: the coordinator is awaited before the context update.
CoordinatorBeforeContext == <<"memory_check", "coordinator", "context_update", "response_generation">>

\* the order of the awaits of _simple_workflow
SimpleWorkflowOrder == <<"memory_check", "context_update", "coordinator", "response_generation">>

EntryPoint(graph) == IF graph THEN GraphEntryPoint ELSE SimpleWorkflowOrder[1]

\* The node that runs after `node`: the target of its edge in the graph, the
\* next await of _simple_workflow otherwise.
NextNode(graph, node) ==
    IF graph
    THEN (CHOOSE e \in GraphEdges : e[1] = node)[2]
    ELSE LET i == CHOOSE k \in 1..Len(SimpleWorkflowOrder) : SimpleWorkflowOrder[k] = node
         IN  IF i < Len(SimpleWorkflowOrder) THEN SimpleWorkflowOrder[i + 1] ELSE "END"

\* lines 305-326: the latest agent_response of the final state, or the fixed
\* apology when there is none
AgentResponsesOf(messages) == SelectSeq(messages, LAMBDA m : m.type = "agent_response")

NoResponseText == "sorry_cannot_process"

ExtractResponse(messages, id) ==
    LET response_messages == AgentResponsesOf(messages)
    IN  IF response_messages # <<>>
        THEN LET latest_response == response_messages[Len(response_messages)]
             IN  [keys |-> {"response", "confidence", "tool_calls", "next_action", "conversation_id",
                            "message_id"},
                  response |-> latest_response.content,
                  confidence |-> latest_response.metadata.confidence,
                  tool_calls |-> latest_response.metadata.tool_calls,
                  next_action |-> latest_response.metadata.next_action,
                  conversation_id |-> id,
                  message_id |-> latest_response.id]
        ELSE [keys |-> {"response", "confidence", "conversation_id"},
              response |-> NoResponseText, confidence |-> 0, tool_calls |-> <<>>, next_action |-> "",
              conversation_id |-> id, message_id |-> <<>>]

\* lines 328-335: the outer except
ProcessMessageError(id) ==
    [keys |-> {"response", "confidence", "error", "conversation_id"},
     response |-> PipelineErrorText, confidence |-> 0, tool_calls |-> <<>>, next_action |-> "",
     conversation_id |-> id, message_id |-> <<>>]

\* --- the calls -------------------------------------------------------------
Nodes == {"memory_check", "context_update", "coordinator", "response_generation"}

\* the position after a node: the next node, or the extraction of the
\* response once the engine has reached END
After(node) ==
    LET next == NextNode(graph_available, node)
    IN  IF next = "END" THEN "extract" ELSE next

Logged(c, node) == [call_trace[c] EXCEPT !.stages = Append(@, node)]

FrameworkInit ==
    /\ graph_available \in BOOLEAN
    /\ conversation_id = NoId
    /\ memory_store = <<>>
    /\ turn_count = 0
    /\ call_pc = [c \in Callers |-> "idle"]
    /\ call_args = [c \in Callers |-> NoArgs]
    /\ state_messages = [c \in Callers |-> <<>>]
    /\ call_result = [c \in Callers |-> NoResult]
    /\ call_trace = [c \in Callers |-> NoTrace]
    /\ PlanIdle
    /\ DecIdle
    /\ IntIdle
    /\ TurnIdle
    /\ ToolsIdle
    /\ BatchIdle
    /\ MemoryIdle
    /\ McpIdle

\* process_message, lines 271-294: the instance field takes this call's id,
\* the state starts with the user message alone.  The callers differ in name
\* only, so the first call of all is taken to be a's.
ProcessMessage(c) ==
    /\ call_pc[c] \in {"idle", "returned"}
    /\ turn_count = 0 => c = "a"
    /\ turn_count < MaxTurns
    /\ \E id \in SuppliedIds \cup {NoId} :
          LET t == turn_count + 1
              own == IF id # NoId THEN id ELSE GeneratedId(t)
          IN  /\ conversation_id' = own
              /\ turn_count' = t
              /\ call_args' = [call_args EXCEPT ![c] =
                                  [turn |-> t, user_input |-> UserInput(c), conversation_id |-> id]]
              /\ state_messages' = [state_messages EXCEPT ![c] = <<UserMessage(t, UserInput(c))>>]
              /\ call_result' = [call_result EXCEPT ![c] = NoResult]
              /\ call_trace' = [call_trace EXCEPT ![c] =
                                  [NoTrace EXCEPT !.own_id = own,
                                                  !.loaded_from = IF graph_available THEN NoId ELSE own]]
              /\ call_pc' = [call_pc EXCEPT ![c] = EntryPoint(graph_available)]
    /\ UNCHANGED <<graph_available, memory_store>>
    /\ UNCHANGED fwOthers

\* The conversation id _memory_check_node retrieves.  _simple_workflow reaches
\* the read of self.conversation_id without suspending after process_message
\* has set it, so the sequential engine reads the call's own id; the graph
\* engine starts the node from inside ainvoke, after whatever it awaits first,
\* and reads what the field holds then.
MemoryCheckId(c) == IF graph_available THEN conversation_id ELSE call_trace[c].loaded_from

\* _memory_check_node, lines 184-186: each stored dict is rebuilt with
\* Message(**msg_data) and appended at once; when the k-th rebuild raises, the
\* k-1 messages before it are already in state.messages and the except branch
\* returns the state as it is.
RebuildOutcomes(conversation_history) ==
    {[raised |-> FALSE, appended |-> conversation_history]}
        \cup {[raised |-> TRUE, appended |-> SubSeq(conversation_history, 1, k - 1)] :
                  k \in 1..Len(conversation_history)}

\* _memory_check_node: the history stored under the id is appended, message
\* by message, after what the state already holds.  load_failed records a
\* failure that kept a stored history, or a part of it, out of the state.
MemoryCheckNode(c) ==
    /\ call_pc[c] = "memory_check"
    /\ \E outcome \in {"retrieved", "retrieve_failed"} :
          LET conversation_history ==
                  IF MemoryCheckId(c) # NoId
                  THEN RetrieveConversation(memory_store, MemoryCheckId(c), outcome)
                  ELSE <<>>
          IN  \E rebuilt \in RebuildOutcomes(conversation_history) :
                  /\ state_messages' = [state_messages EXCEPT ![c] = @ \o rebuilt.appended]
                  /\ call_trace' = [call_trace EXCEPT ![c] =
                                      [Logged(c, "memory_check") EXCEPT
                                          !.loaded_from = MemoryCheckId(c),
                                          !.loaded = rebuilt.appended,
                                          !.load_failed =
                                              \/ rebuilt.raised
                                              \/ /\ outcome = "retrieve_failed"
                                                 /\ MemoryCheckId(c) \in DOMAIN memory_store]]
    /\ call_pc' = [call_pc EXCEPT ![c] = After("memory_check")]
    /\ UNCHANGED <<graph_available, conversation_id, memory_store, turn_count, call_args, call_result>>
    /\ UNCHANGED fwOthers

\* _context_update_node: only state.context changes
ContextUpdateNode(c) ==
    /\ call_pc[c] = "context_update"
    /\ call_trace' = [call_trace EXCEPT ![c] = Logged(c, "context_update")]
    /\ call_pc' = [call_pc EXCEPT ![c] = After("context_update")]
    /\ UNCHANGED <<graph_available, conversation_id, memory_store, turn_count, call_args, state_messages,
                   call_result>>
    /\ UNCHANGED fwOthers

\* The message _coordinator_node appends.  The coordinator reads
\* state.messages[-1] (CoordinatorAgent.process, lines 58-59) and answers with
\* one of its responses; an exception inside the node's try block (process
\* letting one through, or the response not being an AgentResponse) puts a
\* system_message in place of the agent_response.
CoordinatorNodeMessage(t, outcome) ==
    IF outcome.raised THEN ErrorMessage(t) ELSE ResponseMessage(t, outcome.response)

CoordinatorOutcomes ==
    {[raised |-> FALSE, response |-> r] : r \in CoordinatorResponses}
        \cup {[raised |-> TRUE, response |-> ErrorResponse]}

CoordinatorNode(c) ==
    /\ call_pc[c] = "coordinator"
    /\ \E outcome \in CoordinatorOutcomes :
          /\ state_messages' = [state_messages EXCEPT ![c] =
                                   Append(@, CoordinatorNodeMessage(call_args[c].turn, outcome))]
          /\ call_trace' = [call_trace EXCEPT ![c] =
                              [Logged(c, "coordinator") EXCEPT
                                  !.coordinator_input = state_messages[c][Len(state_messages[c])],
                                  !.coordinate_raised = outcome.raised]]
    /\ call_pc' = [call_pc EXCEPT ![c] = After("coordinator")]
    /\ UNCHANGED <<graph_available, conversation_id, memory_store, turn_count, call_args, call_result>>
    /\ UNCHANGED fwOthers

\* _response_generation_node: the whole of state.messages is stored under
\* self.conversation_id, replacing what was stored there
ResponseGenerationNode(c) ==
    /\ call_pc[c] = "response_generation"
    /\ \E outcome \in StoreOutcomes :
          IF conversation_id # NoId /\ state_messages[c] # <<>>
          THEN /\ memory_store' = StoreConversation(memory_store, conversation_id, state_messages[c], outcome)
               /\ call_trace' = [call_trace EXCEPT ![c] =
                                   IF outcome = "stored"
                                   THEN [Logged(c, "response_generation") EXCEPT
                                            !.stored_under = conversation_id,
                                            !.stored = state_messages[c]]
                                   ELSE Logged(c, "response_generation")]
          ELSE /\ memory_store' = memory_store
               /\ call_trace' = [call_trace EXCEPT ![c] = Logged(c, "response_generation")]
    /\ call_pc' = [call_pc EXCEPT ![c] = After("response_generation")]
    /\ UNCHANGED <<graph_available, conversation_id, turn_count, call_args, state_messages, call_result>>
    /\ UNCHANGED fwOthers

\* process_message, lines 305-326
ReturnResponse(c) ==
    /\ call_pc[c] = "extract"
    /\ call_result' = [call_result EXCEPT ![c] = ExtractResponse(state_messages[c], conversation_id)]
    /\ call_pc' = [call_pc EXCEPT ![c] = "returned"]
    /\ UNCHANGED <<graph_available, conversation_id, memory_store, turn_count, call_args, state_messages,
                   call_trace>>
    /\ UNCHANGED fwOthers

\* process_message, lines 328-335: graph.ainvoke, or the use of what it
\* returned, raised.  The nodes of _simple_workflow catch everything they
\* raise, so the sequential engine does not come here.
EngineRaises(c) ==
    /\ graph_available
    /\ call_pc[c] \in Nodes \cup {"extract"}
    /\ call_result' = [call_result EXCEPT ![c] = ProcessMessageError(conversation_id)]
    /\ call_trace' = [call_trace EXCEPT ![c].engine_raised = TRUE]
    /\ call_pc' = [call_pc EXCEPT ![c] = "returned"]
    /\ UNCHANGED <<graph_available, conversation_id, memory_store, turn_count, call_args, state_messages>>
    /\ UNCHANGED fwOthers

FrameworkNext ==
    \E c \in Callers :
        \/ ProcessMessage(c)
        \/ MemoryCheckNode(c)
        \/ ContextUpdateNode(c)
        \/ CoordinatorNode(c)
        \/ ResponseGenerationNode(c)
        \/ ReturnResponse(c)
        \/ EngineRaises(c)

FrameworkSpec == FrameworkInit /\ [][FrameworkNext]_vars

\* --- properties of the turn pipeline --------------------------------------
HasReturned(c) == call_pc[c] = "returned"

\* The message the coordinate stage of the caller's current call appended.
CoordinateMessage(c) ==
    LET own == SelectSeq(state_messages[c],
                         LAMBDA m : m.id[1] = call_args[c].turn /\ m.type # "user_input")
    IN  IF own = <<>> THEN NoMessage ELSE own[1]

\* A turn that failed: the engine raised, the coordinate stage raised, or the
\* coordinator answered from its own except branch.
TurnFailed(c) ==
    \/ call_trace[c].engine_raised
    \/ call_trace[c].coordinate_raised
    \/ CoordinateMessage(c) = ResponseMessage(call_args[c].turn, ErrorResponse)

\* C14: every call returns a result with a response, a confidence and a
\* conversation id, and the confidence returned by a failed turn is lower
\* than the confidence of every successful branch of the coordinator.
C14_FailedTurnHasLowestConfidence ==
    \A c \in Callers :
        HasReturned(c) =>
            /\ {"response", "confidence", "conversation_id"} \subseteq call_result[c].keys
            /\ call_result[c].conversation_id # NoId
            /\ TurnFailed(c) =>
                  \A r \in SuccessfulResponses : call_result[c].confidence < r.confidence

\* has the node run in the caller's current call
Ran(c, node) == \E k \in 1..Len(call_trace[c].stages) : call_trace[c].stages[k] = node

\* The conversation id of the caller's current call: the one it supplied, or
\* the one generated for it.
OwnId(c) ==
    IF call_args[c].conversation_id # NoId
    THEN call_args[c].conversation_id
    ELSE GeneratedId(call_args[c].turn)

\* C15: each turn loads history from its own conversation id, persists under
\* its own conversation id and returns its own conversation id, also when the
\* stages of another call with a different id run in between.
C15_TurnUsesOwnConversationId ==
    \A c \in Callers :
        /\ Ran(c, "memory_check") => call_trace[c].loaded_from = OwnId(c)
        /\ call_trace[c].stored_under # NoId => call_trace[c].stored_under = OwnId(c)
        /\ HasReturned(c) => call_result[c].conversation_id = OwnId(c)

\* C18: the message whose content the coordinator classifies and hands to its
\* branch handlers is the user_input message created from this turn's
\* user_input, whatever history memory_check has loaded.
C18_CoordinatorReadsThisTurnsInput ==
    \A c \in Callers :
        Ran(c, "coordinator") =>
            /\ call_trace[c].coordinator_input = UserMessage(call_args[c].turn, call_args[c].user_input)
            /\ call_trace[c].coordinator_input.content = call_args[c].user_input

IsPrefix(s, t) == Len(s) <= Len(t) /\ SubSeq(t, 1, Len(s)) = s

C20_CoordinateFailureReturnsErrorText ==
    \A c \in Callers :
        (HasReturned(c) /\ call_trace[c].coordinate_raised /\ ~call_trace[c].engine_raised) =>
            /\ state_messages[c][Len(state_messages[c])] = ErrorMessage(call_args[c].turn)
            /\ \A k \in 1..Len(state_messages[c]) :
                  state_messages[c][k].id[1] = call_args[c].turn =>
                      state_messages[c][k].type # "agent_response"
            /\ call_result[c].response = PipelineErrorText

\* What _simple_workflow leaves in state.messages for the same initial state
\* and the same outcomes of the stages' collaborators: the user message, the
\* history memory_check loaded, the message the coordinate stage appended.
SequentialMessages(c) ==
    <<UserMessage(call_args[c].turn, call_args[c].user_input)>>
        \o call_trace[c].loaded
        \o (IF CoordinateMessage(c) = NoMessage THEN <<>> ELSE <<CoordinateMessage(c)>>)

\* C16: through either engine a call runs memory_check, context_update,
\* coordinator and response_generation in this order, and returns what the
\* sequential engine returns for the same initial state and the same outcomes
\* of the collaborators: the response extracted from the final messages.
C16_EnginesReturnTheSame ==
    \A c \in Callers :
        HasReturned(c) =>
            /\ call_trace[c].stages = SimpleWorkflowOrder
            /\ state_messages[c] = SequentialMessages(c)
            /\ call_result[c] = ExtractResponse(SequentialMessages(c), call_result[c].conversation_id)

\* C21: when memory_check failed (the retrieval failed or the rebuild of a
\* stored message raised), the stage appended nothing: state.messages is what
\* it was before the stage.
C21_FailedMemoryCheckAppendsNothing ==
    \A c \in Callers :
        (Ran(c, "memory_check") /\ call_trace[c].load_failed) => call_trace[c].loaded = <<>>

\* C22: in the sequential engine the stages of a call run in the order
\* memory_check, context_update, coordinator, response_generation, each once:
\* the stages that have run are always the first ones of this order, the
\* stage in progress is the one after them, and a call that has left the
\* pipeline has run all four.  Each call works on the state it created.
C22_SequentialStagesInOrder ==
    ~graph_available =>
        \A c \in Callers :
            LET order == <<"memory_check", "context_update", "coordinator", "response_generation">>
                n == Len(call_trace[c].stages)
            IN  /\ n <= Len(order)
                /\ call_trace[c].stages = SubSeq(order, 1, n)
                /\ call_pc[c] \in Nodes => (n < Len(order) /\ call_pc[c] = order[n + 1])
                /\ call_pc[c] \in {"extract", "returned"} => n = Len(order)
                /\ call_pc[c] = "idle" => (n = 0 /\ state_messages[c] = <<>>)
                /\ call_pc[c] # "idle" =>
                      state_messages[c][1] = UserMessage(call_args[c].turn, call_args[c].user_input)

\* two calls of the sequential engine, interleaved, have both returned
C22_Witness ==
    /\ ~graph_available
    /\ \A c \in Callers : HasReturned(c) /\ Len(call_trace[c].stages) = Len(SimpleWorkflowOrder)
    /\ call_result["a"].conversation_id = call_result["b"].conversation_id

(***************************************************************************)
(* EnhancedIntentRecognizer.batch_recognize_intents: one recognize_intent  *)
(* task per message, joined by asyncio.gather(return_exceptions=True).     *)
(* The tasks complete in any order.  An entry of the returned list carries *)
(* the index of the task it came from (`of`), which the code does not      *)
(* keep: it is there to state whose result the entry is.                   *)
(***************************************************************************)
MaxBatch == 3

BatchTexts == {"hello", "book_a_trip"}

\* the message lists of length 0..MaxBatch
BatchMessages == UNION {[1..n -> BatchTexts] : n \in 0..MaxBatch}

\* What one recognize_intent task ends with: a recognized Intent, the default
\* Intent of the recognizer's own except branch, or an exception it let
\* through.
TaskOutcomes ==
    {IntentReturned([type |-> "complex_task", confidence |-> MaxIntentConfidence - 5]),
     IntentReturned(DefaultIntent),
     IntentRaised("RuntimeError")}

\* lines 427-432: Intent(type=IntentType.CASUAL_CHAT, confidence=0.0, ...)
BatchFailureIntent == [type |-> "casual_chat", confidence |-> 0]

\* Mutant: the results are taken in the order the tasks completed.
ResultsAsCompleted(tasks, order) == [k \in 1..Len(order) |-> tasks[order[k]]]

\* asyncio.gather: the results in the order of the awaitables passed in
GatherResults(tasks, order) == [k \in 1..Len(tasks) |-> tasks[k]]

\* lines 424-434: an exception becomes the failure Intent, a result is kept
BatchIntents(results) ==
    [k \in 1..Len(results) |->
        [of |-> results[k].of,
         intent |-> IF results[k].result.raised THEN BatchFailureIntent ELSE results[k].result.intent]]

BatchInit ==
    /\ batch_pc = "idle"
    /\ batch_messages = <<>>
    /\ batch_tasks = <<>>
    /\ batch_order = <<>>
    /\ batch_intents = <<>>
    /\ PlanIdle
    /\ DecIdle
    /\ IntIdle
    /\ TurnIdle
    /\ ToolsIdle
    /\ FrameworkIdle
    /\ MemoryIdle
    /\ McpIdle

\* lines 416-419: the tasks, one per message, in the order of the messages
BatchEnter ==
    /\ batch_pc = "idle"
    /\ \E messages \in BatchMessages :
          /\ batch_messages' = messages
          /\ batch_tasks' = [k \in 1..Len(messages) |->
                                [of |-> k, message |-> messages[k], pending |-> TRUE,
                                 result |-> IntentReturned(NoIntent)]]
    /\ batch_pc' = "gather"
    /\ UNCHANGED <<batch_order, batch_intents>>
    /\ UNCHANGED batchOthers

\* one task completes, whichever is ready first
TaskCompletes(i) ==
    /\ batch_pc = "gather"
    /\ batch_tasks[i].pending
    /\ \E outcome \in TaskOutcomes :
          batch_tasks' = [batch_tasks EXCEPT ![i].pending = FALSE, ![i].result = outcome]
    /\ batch_order' = Append(batch_order, i)
    /\ UNCHANGED <<batch_pc, batch_messages, batch_intents>>
    /\ UNCHANGED batchOthers

\* lines 421-436: gather returns when every task has completed
BatchReturn ==
    /\ batch_pc = "gather"
    /\ \A k \in 1..Len(batch_tasks) : ~batch_tasks[k].pending
    /\ batch_intents' = BatchIntents(GatherResults(batch_tasks, batch_order))
    /\ batch_pc' = "done"
    /\ UNCHANGED <<batch_messages, batch_tasks, batch_order>>
    /\ UNCHANGED batchOthers

BatchNext ==
    \/ BatchEnter
    \/ \E i \in 1..Len(batch_tasks) : TaskCompletes(i)
    \/ BatchReturn

BatchSpec == BatchInit /\ [][BatchNext]_vars

\* C17: the batch returns one intent per message, the i-th from the task of
\* the i-th message whatever the completion order; the slot of a task that
\* raised holds the casual_chat failure intent and every other slot holds
\* what its own task returned.
C17_BatchKeepsInputOrder ==
    batch_pc = "done" =>
        /\ Len(batch_intents) = Len(batch_messages)
        /\ \A i \in 1..Len(batch_messages) :
              /\ batch_intents[i].of = i
              /\ batch_tasks[i].message = batch_messages[i]
              /\ batch_tasks[i].result.raised =>
                    /\ batch_intents[i].intent = BatchFailureIntent
                    /\ batch_intents[i].intent.type = "casual_chat"
              /\ ~batch_tasks[i].result.raised =>
                    batch_intents[i].intent = batch_tasks[i].result.intent

\* the second task completed first, the first task raised and the second
\* returned a complex_task intent
C17_Witness ==
    /\ batch_pc = "done"
    /\ Len(batch_messages) >= 2
    /\ batch_order[1] = 2
    /\ batch_tasks[1].result.raised
    /\ batch_intents[1].intent = BatchFailureIntent
    /\ batch_intents[2].intent.type = "complex_task"

\* ------------------------------------------------------------------------
\* MemoryManager.store / retrieve over a primary and a fallback store
\* (src/memory/memory_manager.py, lines 231-277)
\* ------------------------------------------------------------------------

\* Largest number of MemoryManager.store calls on one manager.
MaxStores == 3

MemoryKeys == {"k1", "k2"}

MemoryValues == {"v1", "v2"}

\* Python's None: no value under the key.
NoneValue == "None"

EmptyMemory == [key \in MemoryKeys |-> NoneValue]

\* BaseMemory.store (models.py, lines 120-123) as its subclasses implement
\* it: the value is written, or the call raises with nothing written
\* (SqliteMemory.store, lines 44-68: the transaction is not committed), or it
\* raises after the value was written (RedisMemory.store: the set of the
\* value succeeds and a later command fails).
BackendStoreOutcomes == {"stored", "raised", "written_then_raised"}

BackendStore(memory, key, value, outcome) ==
    [raised |-> outcome # "stored",
     memory |-> IF outcome = "raised" THEN memory ELSE [memory EXCEPT ![key] = value]]

\* BaseMemory.retrieve (models.py, lines 125-128): the value under the key,
\* or None when there is none; a backend that fails returns None
\* (SqliteMemory.retrieve, lines 70-89) or raises.
BackendRetrieveOutcomes == {"returned", "none", "raised"}

BackendRetrieve(memory, key, outcome) ==
    [raised |-> outcome = "raised",
     value  |-> IF outcome = "returned" THEN memory[key] ELSE NoneValue]

\* MemoryManager.store, lines 239-246: the primary is tried; when it raises
\* the fallback is tried and its exception, if any, leaves the call.
ManagerStore(primary, fallback, key, value, primary_outcome, fallback_outcome) ==
    LET p == BackendStore(primary, key, value, primary_outcome)
        f == BackendStore(fallback, key, value, fallback_outcome)
    IN  IF ~p.raised
        THEN [primary |-> p.memory, fallback |-> fallback, raised |-> FALSE, accepted_by |-> "primary"]
        ELSE [primary |-> p.memory, fallback |-> f.memory, raised |-> f.raised,
              accepted_by |-> IF f.raised THEN "nobody" ELSE "fallback"]

\* MemoryManager.retrieve, lines 248-263: the primary's value when it is not
\* None; otherwise, and when the primary raised, the fallback's value; None
\* when the fallback raised.
ManagerRetrieve(primary, fallback, key, primary_outcome, fallback_outcome) ==
    LET p == BackendRetrieve(primary, key, primary_outcome)
        f == BackendRetrieve(fallback, key, fallback_outcome)
    IN  IF ~p.raised /\ p.value # NoneValue THEN p.value
        ELSE IF f.raised THEN NoneValue ELSE f.value

NoMemoryCall == [op |-> "none", key |-> "", value |-> NoneValue, raised |-> FALSE,
                 accepted_by |-> "", reads_failed |-> FALSE, result |-> NoneValue]

MemoryInit ==
    /\ primary_memory = EmptyMemory
    /\ fallback_memory = EmptyMemory
    /\ store_calls = 0
    /\ last_stored = [key \in MemoryKeys |->
                         [value |-> NoneValue, accepted_by |-> "", primary_holds |-> NoneValue]]
    /\ memory_call = NoMemoryCall
    /\ PlanIdle
    /\ DecIdle
    /\ IntIdle
    /\ TurnIdle
    /\ ToolsIdle
    /\ FrameworkIdle
    /\ BatchIdle
    /\ McpIdle

\* One call of MemoryManager.store(key, value). last_stored keeps, per key,
\* the value of the latest store call on the key when that call returned
\* without raising, who accepted it, and what the primary held for the key
\* when the call returned.
Store(key, value) ==
    /\ store_calls < MaxStores
    /\ \E primary_outcome, fallback_outcome \in BackendStoreOutcomes :
          LET r == ManagerStore(primary_memory, fallback_memory, key, value,
                                primary_outcome, fallback_outcome)
          IN  /\ primary_memory' = r.primary
              /\ fallback_memory' = r.fallback
              /\ last_stored' = [last_stored EXCEPT ![key] =
                                    IF r.raised
                                    THEN [value |-> NoneValue, accepted_by |-> "nobody", primary_holds |-> NoneValue]
                                    ELSE [value |-> value, accepted_by |-> r.accepted_by,
                                          primary_holds |-> r.primary[key]]]
              /\ memory_call' = [NoMemoryCall EXCEPT !.op = "store", !.key = key, !.value = value,
                                                     !.raised = r.raised, !.accepted_by = r.accepted_by]
    /\ store_calls' = store_calls + 1
    /\ UNCHANGED memOthers

\* One call of MemoryManager.retrieve(key).
Retrieve(key) ==
    /\ \E primary_outcome, fallback_outcome \in BackendRetrieveOutcomes :
          memory_call' = [NoMemoryCall EXCEPT
                             !.op = "retrieve", !.key = key,
                             !.reads_failed = primary_outcome # "returned" \/ fallback_outcome # "returned",
                             !.result = ManagerRetrieve(primary_memory, fallback_memory, key,
                                                        primary_outcome, fallback_outcome)]
    /\ UNCHANGED <<primary_memory, fallback_memory, store_calls, last_stored>>
    /\ UNCHANGED memOthers

MemoryNext ==
    \/ \E key \in MemoryKeys, value \in MemoryValues : Store(key, value)
    \/ \E key \in MemoryKeys : Retrieve(key)

MemorySpec == MemoryInit /\ [][MemoryNext]_vars

\* C29: a retrieve(k) whose backend reads did not fail, made when the latest
\* store(k, v) returned without raising, returns v -- in particular not an
\* older value of k that the primary still holds after a write that only
\* the fallback accepted.
C29_RetrieveReturnsLastStored ==
    (/\ memory_call.op = "retrieve"
     /\ ~memory_call.reads_failed
     /\ last_stored[memory_call.key].value # NoneValue)
        => memory_call.result = last_stored[memory_call.key].value

\* What the code does guarantee: such a retrieve returns v unless only the
\* fallback accepted v and the primary was left holding a value of k; then
\* it returns the primary's value.
C29_StaleOnlyAfterFallbackWrite ==
    (/\ memory_call.op = "retrieve"
     /\ ~memory_call.reads_failed
     /\ last_stored[memory_call.key].value # NoneValue)
        => LET last == last_stored[memory_call.key]
           IN  memory_call.result =
                   IF last.accepted_by = "fallback" /\ last.primary_holds # NoneValue
                   THEN last.primary_holds ELSE last.value

\* the stale read: v2 was accepted by the fallback only, the primary still
\* holds v1 and retrieve returns v1
C29_StaleRead ==
    /\ memory_call.op = "retrieve"
    /\ ~memory_call.reads_failed
    /\ last_stored[memory_call.key] = [value |-> "v2", accepted_by |-> "fallback", primary_holds |-> "v1"]
    /\ memory_call.result = "v1"

\* ------------------------------------------------------------------------
\* MCPManager (src/tools/mcp_client.py, lines 177-221) and its callers
\* ------------------------------------------------------------------------

\* Largest number of MCPClient objects created on one manager.
MaxClients == 3

ClientNames == {"default", "files"}

\* Python's None for a client; clients are numbered in creation order.
NoClient == 0

\* MCPManager.__init__, lines 180-183
McpInit ==
    /\ clients = [name \in ClientNames |-> NoClient]
    /\ default_client = NoClient
    /\ created_clients = 0
    /\ connected = {}
    /\ mcp_call = [op |-> "none", client_name |-> "", routed_to |-> NoClient, raised |-> FALSE]
    /\ PlanIdle
    /\ DecIdle
    /\ IntIdle
    /\ TurnIdle
    /\ ToolsIdle
    /\ FrameworkIdle
    /\ BatchIdle
    /\ MemoryIdle

\* lines 192-194: the new client becomes the default only when there is none
DefaultAfterAdd(old_default, client) ==
    IF old_default = NoClient THEN client ELSE old_default

\* MCPManager.add_client, lines 185-197. MCPClient.connect (lines 23-43)
\* catches its own exceptions, so the client is stored connected or not.
AddClientEffect(name) ==
    /\ created_clients < MaxClients
    /\ LET client == created_clients + 1
       IN  /\ created_clients' = client
           /\ \E connect_ok \in BOOLEAN :
                 connected' = IF connect_ok THEN connected \cup {client} ELSE connected
           /\ clients' = [clients EXCEPT ![name] = client]
           /\ default_client' = DefaultAfterAdd(default_client, client)

AddClient(name) ==
    /\ AddClientEffect(name)
    /\ mcp_call' = [op |-> "add_client", client_name |-> name, routed_to |-> NoClient, raised |-> FALSE]
    /\ UNCHANGED mcpOthers

\* MultiAgentFramework.initialize_mcp, lines 402-411
InitializeMcp ==
    /\ AddClientEffect("default")
    /\ mcp_call' = [op |-> "initialize_mcp", client_name |-> "default", routed_to |-> NoClient, raised |-> FALSE]
    /\ UNCHANGED mcpOthers

\* MCPManager.call_tool, lines 199-207: the named client, or the default
\* client without a name; ValueError when there is none.
RoutedClient(client_name) ==
    IF client_name # "" THEN clients[client_name] ELSE default_client

MCPCallTool(client_name) ==
    /\ mcp_call' = [op |-> "call_tool", client_name |-> client_name,
                    routed_to |-> RoutedClient(client_name),
                    raised |-> RoutedClient(client_name) = NoClient]
    /\ UNCHANGED <<clients, default_client, created_clients, connected>>
    /\ UNCHANGED mcpOthers

\* CoordinatorAgent._call_mcp_tools, lines 480-521, for an input that asks
\* for a tool: a "default" client is added when there is no default client,
\* then the tool is called without a client name.
CoordinatorCallMcpTools ==
    /\ IF default_client = NoClient
       THEN AddClientEffect("default")
       ELSE UNCHANGED <<clients, default_client, created_clients, connected>>
    /\ mcp_call' = [op |-> "_call_mcp_tools", client_name |-> "",
                    routed_to |-> default_client', raised |-> FALSE]
    /\ UNCHANGED mcpOthers

\* MCPManager.disconnect_all, lines 216-221: the clients of the map are
\* disconnected, the map is cleared and the default is reset.
DisconnectAll ==
    /\ connected' = connected \ {clients[name] : name \in ClientNames}
    /\ clients' = [name \in ClientNames |-> NoClient]
    /\ default_client' = NoClient
    /\ mcp_call' = [op |-> "disconnect_all", client_name |-> "", routed_to |-> NoClient, raised |-> FALSE]
    /\ UNCHANGED created_clients
    /\ UNCHANGED mcpOthers

McpNext ==
    \/ \E name \in ClientNames : AddClient(name)
    \/ InitializeMcp
    \/ \E client_name \in ClientNames \cup {""} : MCPCallTool(client_name)
    \/ CoordinatorCallMcpTools
    \/ DisconnectAll

McpSpec == McpInit /\ [][McpNext]_vars

HeldClients == {clients[name] : name \in ClientNames} \ {NoClient}

\* C30: default_client is None or one of the clients held in the clients
\* map, and a call_tool without a client name is routed to a held client,
\* never to one replaced by a later add_client under its name.
C30_DefaultClientIsHeld ==
    /\ default_client = NoClient \/ default_client \in HeldClients
    /\ (mcp_call.op \in {"call_tool", "_call_mcp_tools"} /\ mcp_call.client_name = "" /\ ~mcp_call.raised)
          => mcp_call.routed_to \in HeldClients

\* What the code does guarantee: the default client is None exactly when no
\* client was added since the last disconnect_all, and otherwise it is the
\* first client added since then, held or replaced.
C30_DefaultIsFirstAdded ==
    /\ default_client = NoClient <=> HeldClients = {}
    /\ default_client # NoClient => \A c \in HeldClients : default_client <= c

\* a call without a client name routed to the replaced client
C30_RoutedToReplaced ==
    /\ mcp_call.op = "call_tool"
    /\ mcp_call.client_name = ""
    /\ mcp_call.routed_to = 1
    /\ clients["default"] = 2

====
